---- MODULE Spec2Model ----
(***************************************************************************)
(* ddnswitch: the version cache (fetchAvailableVersions), the filtering    *)
(* and sorting of the release catalog, and the install / switch /          *)
(* uninstall workflow over the install root and the active link.           *)
(*                                                                         *)
(* Strings (tags, version-query outputs) are sequences of one-character    *)
(* strings, so that comparison, prefix trimming, parsing and substring     *)
(* search are computed as the code computes them.                          *)
(***************************************************************************)
EXTENDS Integers, Sequences, FiniteSets, TLC

(***************************************************************************)
(* Bounds of the model.                                                    *)
(***************************************************************************)
\* longest catalog the remote returns in SpecCatalog (besides ExampleCatalog)
MaxCatalog == 3
\* concurrent callers of fetchAvailableVersions
NumCallers == 2
\* clock ticks (of half an hour) a behaviour lasts
MaxTicks == 2
\* calls of installVersion counted in one command
MaxCounted == 2
\* entries of PATH in SpecResolve
MaxPath == 3
\* entries of PATH in SpecLink
MaxLinkPath == 2
\* chunks of a response body in SpecDownload
MaxBody == 2
\* characters printed by  ddn --version  and of the version asked for in
\* SpecCurrent
MaxOut == 3
MaxQuery == 2
\* successful responses of the releases API numbered in SpecFresh
MaxResponses == 3

VARIABLES
  \* package-level state of core.go / main.go
  versionCache, versionCacheTime, cachePrerelease, includePrerelease,
  \* versionCacheMux: the callers holding the read lock, the caller holding
  \* (or waiting to be granted) the write lock
  rlocks, wlock,
  \* the clock, in half hours
  now,
  \* per caller of fetchAvailableVersions: position, the slice it holds
  \* (cachedVersions / validReleases / the returned value), its error, and
  \* the number of network calls it has made in the current call
  pc, releases, err, net,
  \* history: the entry as last written completely; the current call and
  \* the previous completed call of a sequential run
  entry, cur, prev

  ,
  \* SpecCatalog: the decoded catalog, the flag, and the stored snapshot
  catalog, catFlag, snapshot, catPc

  ,
  \* SpecInstall: the platform, the install root, the version directories,
  \* the entry at the link path
  goos, goarch, rootExists, dirs, link,
  \* the running command: operation, tag, position, error, and its history:
  \* what switchToVersion found installed, the result of installVersion, the
  \* result of downloadBinary, the result of the check after the switch
  op, arg, fpc, ferr, pre, inst, dl, post,
  \* the history of the running command: the version directories and the
  \* link entry it started from, the tag of the command before it if that was
  \* a successful switch with nothing done to the files since, the number of
  \* calls of installVersion, what it reported, the bytes it downloaded
  start, last, ninst, out, got

  ,
  \* SpecResolve and SpecLink: the entries of PATH, the directories in which
  \* the user can create files, whether ~/bin exists or can be made, the
  \* --debug flag, what getSymlinkPath returned, the position of the run
  pathDirs, writable, homeBinOK, debugMode, resolved, rpc,
  \* SpecLink: what is at <dir>/ddn for every directory (the tag it is
  \* a link to, or nothing), the tag of the running switch and its result
  links, ltag, lres

  ,
  \* SpecDownload: the file at destPath and what it was before the call, the
  \* response of the server, the umask of the process, the position of
  \* downloadBinaryImpl and the error it returned
  dest, dest0, resp, umask, dpc, dret

  ,
  \* SpecCurrent: the result of running  ddn --version  from PATH, the
  \* version asked for, what isCurrentVersion returned, its position
  ddnRun, query, isCur, cpc

  ,
  \* SpecFresh (history): the number of successful responses so far, the
  \* number of the response each caller holds, the number of the response
  \* whose snapshot is in versionCache
  rseq, rnum, enum

  ,
  \* SpecPath: the paths that exist on disk, the paths that existed when the
  \* command started (history), the version string of the command line, the
  \* command, its position and its result
  tree, tree0, ptag, pop, ppc, pret

catVars == <<catalog, catFlag, snapshot, catPc>>

fsVars == <<goos, goarch, rootExists, dirs, link>>
cmdVars == <<op, arg, fpc, ferr, pre, inst, dl, post>>
histVars == <<start, last, ninst, out, got>>
linkVars == <<pathDirs, writable, homeBinOK, debugMode, resolved, rpc, links, ltag, lres>>
auxVars == <<dest, dest0, resp, umask, dpc, dret>>
curVars == <<ddnRun, query, isCur, cpc>>
freshVars == <<rseq, rnum, enum>>
pathVars == <<tree, tree0, ptag, pop, ppc, pret>>
moreVars == <<curVars, freshVars, pathVars>>

cacheVars == <<versionCache, versionCacheTime, cachePrerelease, includePrerelease,
               rlocks, wlock, now, pc, releases, err, net, entry, cur, prev>>

(***************************************************************************)
(* Strings.                                                                *)
(***************************************************************************)
\* byte values of the characters used in tags (ASCII)
Ord(c) ==
  CASE c = "." -> 46
    [] c = "0" -> 48
    [] c = "1" -> 49
    [] c = "2" -> 50
    [] c = "3" -> 51
    [] c = "5" -> 53
    [] c = "v" -> 118

Digits == {"0", "1", "2", "3", "5"}

DigitVal(c) == Ord(c) - 48

Min(S) == CHOOSE x \in S : \A y \in S : x <= y

\* Go's  a > b  on strings: bytewise lexicographic comparison
StrGreater(a, b) ==
  LET n == IF Len(a) < Len(b) THEN Len(a) ELSE Len(b)
      diff == {i \in 1..n : a[i] # b[i]}
  IN  IF diff = {} THEN Len(a) > Len(b)
      ELSE Ord(a[Min(diff)]) > Ord(b[Min(diff)])

\* strings.Contains(s, sub)
Contains(s, sub) ==
  \E i \in 0..(Len(s) - Len(sub)) : SubSeq(s, i + 1, i + Len(sub)) = sub

\* strings.TrimPrefix(s, "v")
TrimPrefixV(s) == IF Len(s) >= 1 /\ s[1] = "v" THEN Tail(s) ELSE s

(***************************************************************************)
(* semver.NewVersion (Masterminds/semver v3, the lenient parser): an       *)
(* optional "v", then one to three dot-separated groups of digits; absent  *)
(* minor and patch are 0.  The alphabet of the model has no "-" and no     *)
(* "+", so pre-release and build metadata do not occur.                    *)
(***************************************************************************)
RECURSIVE SplitDots(_)
SplitDots(s) ==
  LET dots == {i \in 1..Len(s) : s[i] = "."}
  IN  IF dots = {} THEN <<s>>
      ELSE <<SubSeq(s, 1, Min(dots) - 1)>> \o SplitDots(SubSeq(s, Min(dots) + 1, Len(s)))

RECURSIVE ParseUint(_)
ParseUint(g) ==
  IF g = <<>> THEN 0
  ELSE 10 * ParseUint(SubSeq(g, 1, Len(g) - 1)) + DigitVal(g[Len(g)])

IsNumber(g) == g # <<>> /\ \A i \in 1..Len(g) : g[i] \in Digits

NewVersion(s) ==
  LET body   == TrimPrefixV(s)
      groups == SplitDots(body)
      n      == Len(groups)
  IN  IF n \in 1..3 /\ \A i \in 1..n : IsNumber(groups[i])
      THEN [ok |-> TRUE,
            major |-> ParseUint(groups[1]),
            minor |-> IF n >= 2 THEN ParseUint(groups[2]) ELSE 0,
            patch |-> IF n >= 3 THEN ParseUint(groups[3]) ELSE 0]
      ELSE [ok |-> FALSE, major |-> 0, minor |-> 0, patch |-> 0]

\* (*Version).GreaterThan
GreaterThan(a, b) ==
  \/ a.major > b.major
  \/ a.major = b.major /\ a.minor > b.minor
  \/ a.major = b.major /\ a.minor = b.minor /\ a.patch > b.patch

(***************************************************************************)
(* The tags of the model.                                                  *)
(***************************************************************************)
V1_0_0   == <<"v", "1", ".", "0", ".", "0">>
V1_5_0   == <<"v", "1", ".", "5", ".", "0">>
V2_0_0   == <<"v", "2", ".", "0", ".", "0">>
V3_0_0   == <<"v", "3", ".", "0", ".", "0">>
V10_0_0  == <<"v", "1", "0", ".", "0", ".", "0">>
\* a four-part tag: not a semantic version
V2_0_0_1 == <<"v", "2", ".", "0", ".", "0", ".", "1">>

Tags == {V1_0_0, V1_5_0, V2_0_0, V3_0_0, V10_0_0, V2_0_0_1}

\* type Release (Name and Assets are not read by the core)
Releases == [tag : Tags, prerelease : BOOLEAN, draft : BOOLEAN]

Rel(t, isPre, isDraft) == [tag |-> t, prerelease |-> isPre, draft |-> isDraft]

\* the catalog of the filtering example: v1.0.0 (draft), v2.0.0 (pre-release),
\* v1.5.0, v3.0.0
ExampleCatalog ==
  <<Rel(V1_0_0, FALSE, TRUE), Rel(V2_0_0, TRUE, FALSE),
    Rel(V1_5_0, FALSE, FALSE), Rel(V3_0_0, FALSE, FALSE)>>

\* catalogs: sequences of releases with pairwise different tags
CatalogsUpTo(n) ==
  UNION {{c \in [1..k -> Releases] :
            \A i, j \in 1..k : i # j => c[i].tag # c[j].tag} : k \in 0..n}

(***************************************************************************)
(* Filtering and sorting of a decoded catalog.                             *)
(***************************************************************************)
\* the filter condition of the loop over the decoded releases
KeepsAll(release, flag) == ~release.draft
Keeps(release, flag) == ~release.draft /\ (flag \/ ~release.prerelease)

FilterReleases(decoded, flag) == SelectSeq(decoded, LAMBDA r : Keeps(r, flag))

\* the less function given to sort.Slice
LessSemverOnly(x, y) ==
  LET vi == NewVersion(TrimPrefixV(x.tag))
      vj == NewVersion(TrimPrefixV(y.tag))
  IN  GreaterThan(vi, vj)

Less(x, y) ==
  LET vi == NewVersion(TrimPrefixV(x.tag))
      vj == NewVersion(TrimPrefixV(y.tag))
  IN  IF ~vi.ok \/ ~vj.ok THEN StrGreater(x.tag, y.tag)
      ELSE GreaterThan(vi, vj)

\* sort.Slice on fewer than 12 elements is an insertion sort:
\*   for i := 1; i < n; i++ { for j := i; j > 0 && less(j, j-1); j-- { swap } }
RECURSIVE SinkDown(_, _)
SinkDown(data, j) ==
  IF j > 1 /\ Less(data[j], data[j - 1])
  THEN SinkDown([data EXCEPT ![j] = data[j - 1], ![j - 1] = data[j]], j - 1)
  ELSE data

RECURSIVE InsertionSort(_, _)
InsertionSort(data, i) ==
  IF i > Len(data) THEN data ELSE InsertionSort(SinkDown(data, i), i + 1)

SortSlice(data) == InsertionSort(data, 2)

\* the releases a successful fetch stores and returns
ValidReleases(decoded, flag) == SortSlice(FilterReleases(decoded, flag))

(***************************************************************************)
(* The version cache: fetchAvailableVersions.                              *)
(***************************************************************************)
\* cacheTTL = 1 * time.Hour, in half hours
cacheTTL == 2

\* the zero time.Time of an unset versionCacheTime; the process starts more
\* than cacheTTL after it
ZeroTime == 0
StartTime == ZeroTime + cacheTTL

Callers == 1..NumCallers
None == 0

\* what the remote can answer: catalogs over one stable release and one
\* pre-release
RemoteReleases == {Rel(V1_5_0, FALSE, FALSE), Rel(V2_0_0, TRUE, FALSE)}
RemoteCatalogs ==
  {c \in CatalogsUpTo(Cardinality(RemoteReleases)) :
     \A i \in 1..Len(c) : c[i] \in RemoteReleases}

\* client.Do fails, status is not 200, the body does not decode
FetchErrors == {"request", "status", "decode"}

Triple == <<versionCache, versionCacheTime, cachePrerelease>>

\* the condition of the cache check
CacheUsableAnyFlag(cache, ctime, cflag, flag, t) ==
  t - ctime < cacheTTL /\ Len(cache) > 0
CacheUsableExpiredEarly(cache, ctime, cflag, flag, t) ==
  t - ctime < cacheTTL - 1 /\ Len(cache) > 0 /\ cflag = flag
CacheUsableAlsoEmpty(cache, ctime, cflag, flag, t) ==
  t - ctime < cacheTTL /\ cflag = flag
CacheUsable(cache, ctime, cflag, flag, t) ==
  t - ctime < cacheTTL /\ Len(cache) > 0 /\ cflag = flag

\* versionCacheMux.RLock(): blocked while a writer holds or waits for the lock
Call(p) ==
  /\ pc[p] = "idle"
  /\ wlock = None
  /\ rlocks' = rlocks \cup {p}
  /\ pc' = [pc EXCEPT ![p] = "rlocked"]
  /\ UNCHANGED <<versionCache, versionCacheTime, cachePrerelease, includePrerelease,
                 wlock, now, releases, err, net, entry>>

\* the cache check, under the read lock
Check(p) ==
  /\ pc[p] = "rlocked"
  /\ IF CacheUsable(versionCache, versionCacheTime, cachePrerelease,
                    includePrerelease, now)
     THEN /\ releases' = [releases EXCEPT ![p] = versionCache]
          /\ pc' = [pc EXCEPT ![p] = "hit"]
     ELSE /\ pc' = [pc EXCEPT ![p] = "miss"]
          /\ UNCHANGED releases
  /\ UNCHANGED <<versionCache, versionCacheTime, cachePrerelease, includePrerelease,
                 rlocks, wlock, now, err, net, entry>>

\* the read lock released on a hit only, kept over the network call on a miss
RUnlockMissKeepsLock(p) ==
  /\ pc[p] \in {"hit", "miss"}
  /\ rlocks' = IF pc[p] = "hit" THEN rlocks \ {p} ELSE rlocks
  /\ pc' = [pc EXCEPT ![p] = IF pc[p] = "hit" THEN "done" ELSE "fetch"]
  /\ UNCHANGED <<versionCache, versionCacheTime, cachePrerelease, includePrerelease,
                 wlock, now, releases, err, net, entry>>

\* versionCacheMux.RUnlock(), and on a hit the return of cachedVersions
RUnlock(p) ==
  /\ pc[p] \in {"hit", "miss"}
  /\ rlocks' = rlocks \ {p}
  /\ pc' = [pc EXCEPT ![p] = IF pc[p] = "hit" THEN "done" ELSE "fetch"]
  /\ UNCHANGED <<versionCache, versionCacheTime, cachePrerelease, includePrerelease,
                 wlock, now, releases, err, net, entry>>

\* what a failed fetch leaves of the cache entry
FailedFetchCacheCleared(cache) == <<>>
FailedFetchCache(cache) == cache

\* the network call fails: return nil, err
FetchFail(p) ==
  /\ pc[p] = "fetch"
  /\ \E e \in FetchErrors : err' = [err EXCEPT ![p] = e]
  /\ net' = [net EXCEPT ![p] = net[p] + 1]
  /\ releases' = [releases EXCEPT ![p] = <<>>]
  /\ versionCache' = FailedFetchCache(versionCache)
  /\ pc' = [pc EXCEPT ![p] = "done"]
  /\ UNCHANGED <<versionCacheTime, cachePrerelease, includePrerelease,
                 rlocks, wlock, now, entry>>

\* the network call succeeds: decode, filter, sort
FetchOK(p) ==
  /\ pc[p] = "fetch"
  /\ \E c \in RemoteCatalogs :
       releases' = [releases EXCEPT ![p] = ValidReleases(c, includePrerelease)]
  /\ net' = [net EXCEPT ![p] = net[p] + 1]
  /\ pc' = [pc EXCEPT ![p] = "wantlock"]
  /\ UNCHANGED <<versionCache, versionCacheTime, cachePrerelease, includePrerelease,
                 rlocks, wlock, now, err, entry>>

\* versionCacheMux.Lock(), first half: exclude other writers and new readers
LockAnnounce(p) ==
  /\ pc[p] = "wantlock"
  /\ wlock = None
  /\ wlock' = p
  /\ pc' = [pc EXCEPT ![p] = "locking"]
  /\ UNCHANGED <<versionCache, versionCacheTime, cachePrerelease, includePrerelease,
                 rlocks, now, releases, err, net, entry>>

\* when the write lock is granted
NoWaitForReaders(readers) == TRUE
ReadersGone(readers) == readers = {}

\* versionCacheMux.Lock(), second half: wait for the readers to leave
LockAcquire(p) ==
  /\ pc[p] = "locking"
  /\ ReadersGone(rlocks)
  /\ pc' = [pc EXCEPT ![p] = "w1"]
  /\ UNCHANGED <<versionCache, versionCacheTime, cachePrerelease, includePrerelease,
                 rlocks, wlock, now, releases, err, net, entry>>

\* versionCache = validReleases
WriteCache(p) ==
  /\ pc[p] = "w1"
  /\ versionCache' = releases[p]
  /\ pc' = [pc EXCEPT ![p] = "w2"]
  /\ UNCHANGED <<versionCacheTime, cachePrerelease, includePrerelease,
                 rlocks, wlock, now, releases, err, net, entry>>

\* the time the entry is stamped with
StampOld(t, old) == old
Stamp(t, old) == t

\* versionCacheTime = time.Now()
WriteTime(p) ==
  /\ pc[p] = "w2"
  /\ versionCacheTime' = Stamp(now, versionCacheTime)
  /\ pc' = [pc EXCEPT ![p] = "w3"]
  /\ UNCHANGED <<versionCache, cachePrerelease, includePrerelease,
                 rlocks, wlock, now, releases, err, net, entry>>

\* cachePrerelease = includePrerelease
WriteFlag(p) ==
  /\ pc[p] = "w3"
  /\ cachePrerelease' = includePrerelease
  /\ entry' = <<versionCache, versionCacheTime, includePrerelease>>
  /\ pc' = [pc EXCEPT ![p] = "w4"]
  /\ UNCHANGED <<versionCache, versionCacheTime, includePrerelease,
                 rlocks, wlock, now, releases, err, net>>

\* versionCacheMux.Unlock() and return validReleases, nil
Unlock(p) ==
  /\ pc[p] = "w4"
  /\ wlock' = None
  /\ pc' = [pc EXCEPT ![p] = "done"]
  /\ UNCHANGED <<versionCache, versionCacheTime, cachePrerelease, includePrerelease,
                 rlocks, now, releases, err, net, entry>>

\* the caller has consumed the result
Finish(p) ==
  /\ pc[p] = "done"
  /\ pc' = [pc EXCEPT ![p] = "idle"]
  /\ releases' = [releases EXCEPT ![p] = <<>>]
  /\ err' = [err EXCEPT ![p] = "none"]
  /\ net' = [net EXCEPT ![p] = 0]
  /\ UNCHANGED <<versionCache, versionCacheTime, cachePrerelease, includePrerelease,
                 rlocks, wlock, now, entry>>

AllIdle == \A p \in Callers : pc[p] = "idle"

\* the --pre flag: set while no call is running
SetFlag ==
  /\ AllIdle
  /\ includePrerelease' = ~includePrerelease
  /\ UNCHANGED <<versionCache, versionCacheTime, cachePrerelease,
                 rlocks, wlock, now, pc, releases, err, net, entry, cur, prev>>

Tick ==
  /\ now < StartTime + MaxTicks
  /\ now' = now + 1
  /\ UNCHANGED <<versionCache, versionCacheTime, cachePrerelease, includePrerelease,
                 rlocks, wlock, pc, releases, err, net, entry, cur, prev>>

InitCache ==
  /\ versionCache = <<>>
  /\ versionCacheTime = ZeroTime
  /\ cachePrerelease = FALSE
  /\ includePrerelease \in BOOLEAN
  /\ rlocks = {}
  /\ wlock = None
  /\ now = StartTime
  /\ pc = [p \in Callers |-> "idle"]
  /\ releases = [p \in Callers |-> <<>>]
  /\ err = [p \in Callers |-> "none"]
  /\ net = [p \in Callers |-> 0]
  /\ entry = <<<<>>, ZeroTime, FALSE>>
  /\ cur = [at |-> ZeroTime, netAt |-> ZeroTime, before |-> <<<<>>, ZeroTime, FALSE>>]
  /\ prev = [valid |-> FALSE, flag |-> FALSE, err |-> "none", releases |-> <<>>,
             net |-> 0, stamp |-> ZeroTime]

(***************************************************************************)
(* The install root and the active link.                                   *)
(***************************************************************************)
\* the tags given on the command line
InstallTags == {V2_0_0, V3_0_0}

\* what a binary prints for  version  (the tag it was built as)
Outputs == {V2_0_0, V3_0_0, V2_0_0_1}

\* a binary's bytes: whether they are a program that runs, and what it prints
Contents ==
  {[runs |-> FALSE, out |-> <<>>]} \cup {[runs |-> TRUE, out |-> o] : o \in Outputs}
Garbage == [runs |-> FALSE, out |-> <<>>]

\* a file: its bytes and whether any execute bit is set
File(c, x) == [content |-> c, exec |-> x]
NoFile == File(Garbage, FALSE)

\* a version directory: absent, empty, or holding the binary; extra says
\* whether it holds anything besides the binary
AbsentDir == [exists |-> FALSE, hasBin |-> FALSE, bin |-> NoFile, extra |-> FALSE]
EmptyDir  == [exists |-> TRUE, hasBin |-> FALSE, bin |-> NoFile, extra |-> FALSE]
DirWith(f) == [exists |-> TRUE, hasBin |-> TRUE, bin |-> f, extra |-> FALSE]
\* os.Create(binPath) and the writes to it: the binary of directory d is f,
\* what else the directory holds stays
WithBin(d, f) == [d EXCEPT !.exists = TRUE, !.hasBin = TRUE, !.bin = f]

\* the entry at the link path: none, a symbolic link to the binary path of a
\* tag, or a regular file
NoLink == [kind |-> "none", target |-> <<>>, file |-> NoFile]
LinkTo(t) == [kind |-> "symlink", target |-> t, file |-> NoFile]
LinkFile(f) == [kind |-> "file", target |-> <<>>, file |-> f]

OSNames == {"linux", "darwin", "windows"}
ArchNames == {"amd64", "arm64", "arm"}

\* exec.Command(binPath, "version").CombinedOutput()
RunVersion(os, d) ==
  IF d.hasBin /\ d.bin.content.runs /\ (os = "windows" \/ d.bin.exec)
  THEN [ok |-> TRUE, out |-> d.bin.content.out]
  ELSE [ok |-> FALSE, out |-> <<>>]

\* the binary of directory d runs and its output contains the tag
Reports(os, d, version) ==
  /\ d.hasBin /\ d.bin.content.runs /\ (os = "windows" \/ d.bin.exec)
  /\ Contains(d.bin.content.out, version)

\* the verification of the downloaded binary in installVersionImpl
InstallVerifiesRunOnly(os, d, version) == RunVersion(os, d).ok
InstallVerifies(os, d, version) ==
  RunVersion(os, d).ok /\ Contains(RunVersion(os, d).out, version)

\* the verification of the installed binary in switchToVersion
SwitchVerifiesRunOnly(os, d, version) == RunVersion(os, d).ok
SwitchVerifies(os, d, version) ==
  RunVersion(os, d).ok /\ Contains(RunVersion(os, d).out, version)

\* ARM-based Linux systems are not supported
UnsupportedArm64Only(os, arch) == os = "linux" /\ arch = "arm64"
UnsupportedArmOnly(os, arch) == os = "linux" /\ arch = "arm"
Unsupported(os, arch) == os = "linux" /\ (arch = "arm64" \/ arch = "arm")

Goto(p) == fpc' = p
Fail(e) == fpc' = "done" /\ ferr' = e

StartInstall(t) ==
  /\ op = "none"
  /\ op' = "install" /\ arg' = t /\ fpc' = "i_ensure"
  /\ UNCHANGED <<ferr, pre, inst, dl, fsVars, post>>

StartSwitch(t) ==
  /\ op = "none"
  /\ op' = "switch" /\ arg' = t /\ fpc' = "s_ensure"
  /\ UNCHANGED <<ferr, pre, inst, dl, fsVars, post>>

StartUninstall(t) ==
  /\ op = "none"
  /\ op' = "uninstall" /\ arg' = t /\ fpc' = "u_remove"
  /\ UNCHANGED <<ferr, pre, inst, dl, fsVars, post>>

\* installVersionImpl returns e to its caller, which starts over on an error
InstallReturnsRetry(e) ==
  IF op = "install"
  THEN /\ fpc' = "done" /\ ferr' = e
       /\ inst' = IF e = "none" THEN "ok" ELSE "failed"
  ELSE /\ inst' = IF e = "none" THEN "ok" ELSE "failed"
       /\ fpc' = IF e = "none" THEN "s_linkpath" ELSE "s_stat"
       /\ UNCHANGED ferr

\* installVersionImpl returns e to its caller
InstallReturns(e) ==
  IF op = "install"
  THEN /\ fpc' = "done" /\ ferr' = e
       /\ inst' = IF e = "none" THEN "ok" ELSE "failed"
  ELSE /\ inst' = IF e = "none" THEN "ok" ELSE "failed"
       /\ IF e = "none"
          THEN fpc' = "s_linkpath" /\ UNCHANGED ferr
          ELSE fpc' = "done"
               /\ ferr' = IF pre = "absent" THEN "install" ELSE "reinstall"

\* installVersionImpl: ensureInstallDir
InstallEnsureDir ==
  /\ fpc = "i_ensure"
  /\ \/ InstallReturns("installdir") /\ UNCHANGED rootExists
     \/ /\ rootExists' = TRUE
        /\ IF Unsupported(goos, goarch)
           THEN InstallReturns("unsupported")
           ELSE Goto("i_clean") /\ UNCHANGED <<ferr, inst>>
  /\ UNCHANGED <<op, arg, pre, dl, goos, goarch, dirs, link, post>>

\* installVersionImpl without the removal of an existing version directory
InstallCleanupSkipped ==
  /\ fpc = "i_clean"
  /\ Goto("i_mkdir")
  /\ UNCHANGED <<op, arg, ferr, pre, inst, dl, fsVars, post>>

\* installVersionImpl: remove an existing version directory
InstallCleanup ==
  /\ fpc = "i_clean"
  /\ IF dirs[arg].exists
     THEN \/ /\ dirs' = [dirs EXCEPT ![arg] = AbsentDir]
             /\ Goto("i_mkdir") /\ UNCHANGED <<ferr, inst>>
          \/ InstallReturns("cleanup") /\ UNCHANGED dirs
     ELSE Goto("i_mkdir") /\ UNCHANGED <<ferr, inst, dirs>>
  /\ UNCHANGED <<op, arg, pre, dl, goos, goarch, rootExists, link, post>>

\* installVersionImpl: os.MkdirAll(versionDir)
InstallMkdir ==
  /\ fpc = "i_mkdir"
  /\ \/ /\ dirs' = [dirs EXCEPT ![arg] = IF dirs[arg].exists THEN dirs[arg] ELSE EmptyDir]
        /\ Goto("i_download") /\ UNCHANGED <<ferr, inst>>
     \/ InstallReturns("mkdir") /\ UNCHANGED dirs
  /\ UNCHANGED <<op, arg, pre, dl, goos, goarch, rootExists, link, post>>

\* downloadBinaryImpl creating the destination before it reads the status
DownloadNoFileCreatesFirst ==
  /\ fpc = "i_download"
  /\ \E cause \in {"request", "status", "create"} :
       /\ dl' = cause
       /\ dirs' = IF cause = "status"
                  THEN [dirs EXCEPT ![arg] = WithBin(dirs[arg], File(Garbage, FALSE))]
                  ELSE dirs
  /\ InstallReturns("download")
  /\ UNCHANGED <<op, arg, pre, goos, goarch, rootExists, link, post>>

\* downloadBinaryImpl: the request fails, the status is not 200, or the
\* destination cannot be created: no file
DownloadNoFile ==
  /\ fpc = "i_download"
  /\ \E cause \in {"request", "status", "create"} : dl' = cause
  /\ InstallReturns("download")
  /\ UNCHANGED <<op, arg, pre, fsVars, post>>

\* downloadBinaryImpl: the server accepts the connection and then sends
\* nothing, or sends part of the body and no more; http.Get uses the default
\* client, which has no timeout, and io.Copy reads until the body ends: the
\* call waits, before os.Create or with a partial file written
DownloadStalls ==
  /\ fpc = "i_download"
  /\ \/ UNCHANGED dirs
     \/ dirs' = [dirs EXCEPT ![arg] = WithBin(dirs[arg], File(Garbage, FALSE))]
  /\ dl' = "stalled"
  /\ Goto("i_wait")
  /\ UNCHANGED <<op, arg, ferr, pre, inst, goos, goarch, rootExists, link, post>>

\* downloadBinaryImpl: io.Copy fails (a partial file), or os.Chmod fails
\* (the whole file, not executable)
DownloadBrokenFile ==
  /\ fpc = "i_download"
  /\ \/ /\ dl' = "copy"
        /\ dirs' = [dirs EXCEPT ![arg] = WithBin(dirs[arg], File(Garbage, FALSE))]
     \/ /\ goos # "windows"
        /\ dl' = "chmod"
        /\ \E c \in Contents :
             dirs' = [dirs EXCEPT ![arg] = WithBin(dirs[arg], File(c, FALSE))]
  /\ InstallReturns("download")
  /\ UNCHANGED <<op, arg, pre, goos, goarch, rootExists, link, post>>

\* downloadBinaryImpl succeeds: the body is written, chmod 0755 except on
\* Windows
DownloadOK ==
  /\ fpc = "i_download"
  /\ dl' = "ok"
  /\ \E c \in Contents :
       dirs' = [dirs EXCEPT ![arg] = WithBin(dirs[arg], File(c, goos # "windows"))]
  /\ Goto("i_verify")
  /\ UNCHANGED <<op, arg, ferr, pre, inst, goos, goarch, rootExists, link, post>>

\* installVersionImpl: verify the downloaded binary
InstallVerify ==
  /\ fpc = "i_verify"
  /\ IF InstallVerifies(goos, dirs[arg], arg)
     THEN InstallReturns("none")
     ELSE InstallReturns("verify")
  /\ UNCHANGED <<op, arg, pre, dl, fsVars, post>>

\* switchToVersion: ensureInstallDir
SwitchEnsureDir ==
  /\ fpc = "s_ensure"
  /\ \/ Fail("installdir") /\ UNCHANGED rootExists
     \/ rootExists' = TRUE /\ Goto("s_stat") /\ UNCHANGED ferr
  /\ UNCHANGED <<op, arg, pre, inst, dl, goos, goarch, dirs, link, post>>

\* switchToVersion: os.Stat(binPath); install when the binary is absent
SwitchStat ==
  /\ fpc = "s_stat"
  /\ IF dirs[arg].hasBin
     THEN Goto("s_chmod") /\ UNCHANGED pre
     ELSE Goto("i_ensure") /\ pre' = "absent"
  /\ UNCHANGED <<op, arg, ferr, inst, dl, fsVars, post>>

\* switchToVersion: make the binary executable if no execute bit is set
\* (a failing chmod is only logged)
SwitchChmod ==
  /\ fpc = "s_chmod"
  /\ IF goos # "windows" /\ ~dirs[arg].bin.exec
     THEN \/ dirs' = [dirs EXCEPT ![arg].bin.exec = TRUE]
          \/ UNCHANGED dirs
     ELSE UNCHANGED dirs
  /\ Goto("s_verify")
  /\ UNCHANGED <<op, arg, ferr, pre, inst, dl, goos, goarch, rootExists, link, post>>

\* switchToVersion going on to the link whatever the installed binary prints
SwitchVerifySkipped ==
  /\ fpc = "s_verify"
  /\ Goto("s_linkpath")
  /\ pre' = IF Reports(goos, dirs[arg], arg) THEN "good" ELSE "bad"
  /\ UNCHANGED <<op, arg, ferr, inst, dl, fsVars, post>>

\* switchToVersion: verify the installed binary, reinstall on failure or
\* mismatch
SwitchVerify ==
  /\ fpc = "s_verify"
  /\ IF SwitchVerifies(goos, dirs[arg], arg)
     THEN Goto("s_linkpath")
     ELSE Goto("i_ensure")
  /\ pre' = IF Reports(goos, dirs[arg], arg) THEN "good" ELSE "bad"
  /\ UNCHANGED <<op, arg, ferr, inst, dl, fsVars, post>>

\* switchToVersion: getSymlinkPath
SwitchLinkPath ==
  /\ fpc = "s_linkpath"
  /\ \/ Fail("linkpath")
     \/ Goto("s_readlink") /\ UNCHANGED ferr
  /\ UNCHANGED <<op, arg, pre, inst, dl, fsVars, post>>

\* switchToVersion returning at any symbolic link, whatever its target
SwitchReadlinkAnyLink ==
  /\ fpc = "s_readlink"
  /\ IF link.kind = "symlink"
     THEN Fail("none")
     ELSE Goto("l_remove") /\ UNCHANGED ferr
  /\ UNCHANGED <<op, arg, pre, inst, dl, fsVars, post>>

\* switchToVersion: os.Readlink(symlinkPath), return if target == binPath
SwitchReadlink ==
  /\ fpc = "s_readlink"
  /\ IF link.kind = "symlink" /\ link.target = arg
     THEN Fail("none")
     ELSE Goto("l_remove") /\ UNCHANGED ferr
  /\ UNCHANGED <<op, arg, pre, inst, dl, fsVars, post>>

\* createSymlink going on without removing what is at the link path
SymlinkRemoveSkipped ==
  /\ fpc = "l_remove"
  /\ Goto("l_symlink")
  /\ UNCHANGED <<op, arg, ferr, pre, inst, dl, fsVars, post>>

\* createSymlink: remove what is at the link path
SymlinkRemove ==
  /\ fpc = "l_remove"
  /\ IF link.kind # "none"
     THEN \/ link' = NoLink /\ Goto("l_symlink") /\ UNCHANGED ferr
          \/ Fail("symlink") /\ UNCHANGED link
     ELSE Goto("l_symlink") /\ UNCHANGED <<ferr, link>>
  /\ UNCHANGED <<op, arg, pre, inst, dl, goos, goarch, rootExists, dirs, post>>

\* createSymlink: os.Symlink(targetPath, symlinkPath), which fails where an
\* entry exists, else fall back to copy
SymlinkCreate ==
  /\ fpc = "l_symlink"
  /\ \/ link.kind = "none" /\ link' = LinkTo(arg) /\ Goto("s_postcheck")
     \/ Goto("l_copy") /\ UNCHANGED link
  /\ UNCHANGED <<op, arg, ferr, pre, inst, dl, goos, goarch, rootExists, dirs, post>>

\* copyFile fails: before the destination exists, while copying (a partial
\* file), or in the final chmod (the whole file, default mode)
CopyFileFails ==
  /\ fpc = "l_copy"
  /\ \/ UNCHANGED link
     \/ link' = LinkFile(File(Garbage, FALSE))
     \/ link' = LinkFile(File(dirs[arg].bin.content, FALSE))
  /\ Fail("symlink")
  /\ UNCHANGED <<op, arg, pre, inst, dl, goos, goarch, rootExists, dirs, post>>

\* copyFile without the final os.Chmod: the bytes, the default mode
CopyFileOKDefaultMode ==
  /\ fpc = "l_copy"
  /\ link' = LinkFile(File(dirs[arg].bin.content, FALSE))
  /\ Goto("s_postcheck")
  /\ UNCHANGED <<op, arg, ferr, pre, inst, dl, goos, goarch, rootExists, dirs, post>>

\* copyFile succeeds: the bytes and the mode of the binary
CopyFileOK ==
  /\ fpc = "l_copy"
  /\ link' = LinkFile(dirs[arg].bin)
  /\ Goto("s_postcheck")
  /\ UNCHANGED <<op, arg, ferr, pre, inst, dl, goos, goarch, rootExists, dirs, post>>

\* what the run of  ddn version  from PATH comes to: the command cannot be
\* run, its output does not contain the tag (a warning), or it does
PostResults == {"norun", "warning", "verified"}

\* switchToVersion returning an error unless the active ddn reports the tag
SwitchPostCheckFatal ==
  /\ fpc = "s_postcheck"
  /\ \E r \in PostResults :
       /\ post' = r
       /\ Fail(IF r = "verified" THEN "none" ELSE "postcheck")
  /\ UNCHANGED <<op, arg, pre, inst, dl, fsVars>>

\* switchToVersion: run  ddn version  from PATH; a failure or a mismatch is
\* only reported
SwitchPostCheck ==
  /\ fpc = "s_postcheck"
  /\ \E r \in PostResults : post' = r
  /\ Fail("none")
  /\ UNCHANGED <<op, arg, pre, inst, dl, fsVars>>

\* uninstallVersion reporting success with the directory left in place
UninstallVersionKeepsDir ==
  /\ fpc = "u_remove"
  /\ \/ Fail("installdir") /\ UNCHANGED dirs
     \/ /\ ~dirs[arg].exists
        /\ Fail("notinstalled") /\ UNCHANGED dirs
     \/ /\ dirs[arg].exists
        /\ \/ UNCHANGED dirs /\ Fail("none")
           \/ Fail("remove") /\ UNCHANGED dirs
  /\ UNCHANGED <<op, arg, pre, inst, dl, goos, goarch, rootExists, link, post>>

\* uninstallVersion: getInstallDir, os.Stat(versionDir), os.RemoveAll; a
\* failing RemoveAll has removed nothing, or the binary and not the directory
UninstallVersion ==
  /\ fpc = "u_remove"
  /\ \/ Fail("installdir") /\ UNCHANGED dirs
     \/ /\ ~dirs[arg].exists
        /\ Fail("notinstalled") /\ UNCHANGED dirs
     \/ /\ dirs[arg].exists
        /\ \/ dirs' = [dirs EXCEPT ![arg] = AbsentDir] /\ Fail("none")
           \/ Fail("remove") /\ UNCHANGED dirs
           \/ /\ dirs[arg].hasBin
              /\ Fail("remove")
              /\ dirs' = [dirs EXCEPT ![arg].hasBin = FALSE, ![arg].bin = NoFile]
  /\ UNCHANGED <<op, arg, pre, inst, dl, goos, goarch, rootExists, link, post>>

\* the process exits
Exit ==
  /\ fpc = "done"
  /\ op' = "none" /\ arg' = <<>> /\ fpc' = "off" /\ ferr' = "none"
  /\ pre' = "none" /\ inst' = "none" /\ dl' = "none" /\ post' = "none"
  /\ UNCHANGED fsVars

(***************************************************************************)
(* The link path: getSymlinkPathImpl.                                      *)
(***************************************************************************)
HomeBin      == "~/bin"
HomeLocalBin == "~/.local/bin"
UsrLocalBin  == "/usr/local/bin"
OptBin       == "/opt/bin"
UsrBin       == "/usr/bin"

\* the directories of the model, and the entries PATH can have
Dirs == {HomeBin, HomeLocalBin, UsrLocalBin, OptBin, UsrBin}
PathEntries == Dirs \cup {"", "."}

PathsUpTo(n) == UNION {[1..k -> PathEntries] : k \in 0..n}

preferredDirs == <<HomeBin, HomeLocalBin, UsrLocalBin>>

\* binName, with ".exe" on Windows
BinName(os) == IF os = "windows" THEN "ddn.exe" ELSE "ddn"

\* the first entry of PATH that is a preferred directory
RECURSIVE FindPreferredInPathOrder(_, _)
FindPreferredInPathOrder(prefs, path) ==
  IF path = <<>> THEN ""
  ELSE IF \E i \in 1..Len(prefs) : prefs[i] = Head(path) THEN Head(path)
  ELSE FindPreferredInPathOrder(prefs, Tail(path))

\* the loop over preferredDirs with the inner loop over pathDirs: the first
\* preferred directory that is an entry of PATH, "" if there is none
RECURSIVE FindPreferred(_, _)
FindPreferred(prefs, path) ==
  IF prefs = <<>> THEN ""
  ELSE IF \E i \in 1..Len(path) : path[i] = Head(prefs) THEN Head(prefs)
  ELSE FindPreferred(Tail(prefs), path)

\* os.Create(<dir>/.ddnswitch_test) succeeds
CanCreate(dir, wr) == dir \in wr

\* the loop over pathDirs that probes for a writable directory, "" if there
\* is none
RECURSIVE FirstWritable(_, _)
FirstWritable(path, wr) ==
  IF path = <<>> THEN ""
  ELSE IF Head(path) = "" \/ Head(path) = "." THEN FirstWritable(Tail(path), wr)
  ELSE IF CanCreate(Head(path), wr) THEN Head(path)
  ELSE FirstWritable(Tail(path), wr)

\* debugLog: shown only with --debug
DebugLog(debug, msg) == IF debug THEN {msg} ELSE {}

NoPath == [err |-> FALSE, dir |-> "", name |-> "", shown |-> {}]

\* getSymlinkPathImpl: the directory, the file name, the error, and what the
\* user is shown
GetSymlinkPathImpl(path, wr, mkdirOK, debug, os) ==
  LET pref  == FindPreferred(preferredDirs, path)
      probe == IF pref # "" THEN "" ELSE FirstWritable(path, wr)
  IN  IF pref # ""
      THEN [err |-> FALSE, dir |-> pref, name |-> BinName(os),
            shown |-> DebugLog(debug, "Found preferred directory in PATH")]
      ELSE IF probe # ""
      THEN [err |-> FALSE, dir |-> probe, name |-> BinName(os),
            shown |-> DebugLog(debug, "Found writable directory in PATH")]
      ELSE IF mkdirOK
      THEN [err |-> FALSE, dir |-> HomeBin, name |-> BinName(os),
            shown |-> DebugLog(debug, "No suitable directory found in PATH")]
      ELSE [err |-> TRUE, dir |-> "", name |-> "",
            shown |-> DebugLog(debug, "No suitable directory found in PATH")]

\* getSymlinkPath is called
Resolve ==
  /\ rpc = "start"
  /\ resolved' = GetSymlinkPathImpl(pathDirs, writable, homeBinOK, debugMode, goos)
  /\ rpc' = "resolved"
  /\ UNCHANGED <<pathDirs, writable, homeBinOK, debugMode, links, ltag, lres>>

\* os.MkdirAll(~/bin) can succeed or fail; it succeeds where ~/bin is a
\* directory in which the user can create files
HomeBinStates(wr) == IF HomeBin \in wr THEN {TRUE} ELSE BOOLEAN

\* a switch to tag t is invoked with PATH p; the binary of t is installed
\* and verified, switchToVersion is at its call of getSymlinkPath
LinkStart(t, p) ==
  /\ rpc = "off"
  /\ ltag' = t /\ pathDirs' = p
  /\ rpc' = "start"
  /\ UNCHANGED <<writable, homeBinOK, debugMode, resolved, links, lres>>

\* switchToVersion: getSymlinkPath returned an error
LinkPathFailed ==
  /\ rpc = "resolved" /\ resolved.err
  /\ lres' = "linkpath" /\ rpc' = "done"
  /\ UNCHANGED <<pathDirs, writable, homeBinOK, debugMode, resolved, links, ltag>>

\* switchToVersion: os.Readlink(symlinkPath), return if target == binPath
LinkReadlink ==
  /\ rpc = "resolved" /\ ~resolved.err
  /\ IF links[resolved.dir] = LinkTo(ltag)
     THEN lres' = "ok" /\ rpc' = "done"
     ELSE rpc' = "create" /\ UNCHANGED lres
  /\ UNCHANGED <<pathDirs, writable, homeBinOK, debugMode, resolved, links, ltag>>

\* createSymlink in the directory getSymlinkPath returns again: in a
\* directory where the user can create files the old entry is removed and
\* the link is made; elsewhere os.Remove fails, or os.Symlink and the
\* os.Create of copyFile both fail
LinkCreate ==
  /\ rpc = "create"
  /\ LET d == GetSymlinkPathImpl(pathDirs, writable, homeBinOK, debugMode, goos).dir
     IN  IF d \in writable
         THEN links' = [links EXCEPT ![d] = LinkTo(ltag)] /\ lres' = "ok"
         ELSE UNCHANGED links /\ lres' = "symlink"
  /\ rpc' = "done"
  /\ UNCHANGED <<pathDirs, writable, homeBinOK, debugMode, resolved, ltag>>

\* the process exits
LinkExit ==
  /\ rpc = "done"
  /\ rpc' = "off" /\ pathDirs' = <<>> /\ resolved' = NoPath
  /\ ltag' = <<>> /\ lres' = "none"
  /\ UNCHANGED <<writable, homeBinOK, debugMode, links>>

InitLinkIdle ==
  /\ pathDirs = <<>> /\ writable = {} /\ homeBinOK = FALSE /\ debugMode = FALSE
  /\ resolved = NoPath /\ rpc = "off"
  /\ links = [d \in Dirs |-> NoLink] /\ ltag = <<>> /\ lres = "none"

(***************************************************************************)
(* The download: downloadBinaryImpl.                                       *)
(***************************************************************************)
\* response bodies: up to n chunks of bytes
BodiesUpTo(n) == UNION {[1..k -> {"a", "b"}] : k \in 0..n}

\* permission bits as three octal digits
Mode0755 == <<7, 5, 5>>
Mode0666 == <<6, 6, 6>>
Modes == {<<6, 4, 4>>, <<6, 0, 0>>, Mode0755}
Umasks == {<<0, 2, 2>>, <<0, 7, 7>>}

\* the bits of an octal digit, and a digit with the bits of another cleared
BitsOf(d) == {b \in {1, 2, 4} : (d \div b) % 2 = 1}
RECURSIVE SumOf(_)
SumOf(S) == IF S = {} THEN 0 ELSE LET b == CHOOSE x \in S : TRUE IN b + SumOf(S \ {b})
ClearBits(mode, mask) == [i \in 1..3 |-> SumOf(BitsOf(mode[i]) \ BitsOf(mask[i]))]

StatusOK == 200
Statuses == {StatusOK, 404, 500}

\* no file at destPath; a file with content c and permission bits m
NoDest == [exists |-> FALSE, content |-> <<>>, mode |-> <<0, 0, 0>>]
DestFile(c, m) == [exists |-> TRUE, content |-> c, mode |-> m]

\* http.Get(url): the request fails, or a response arrives
DownloadGet ==
  /\ dpc = "get"
  /\ \/ dpc' = "done" /\ dret' = "request"
     \/ dpc' = "status" /\ UNCHANGED dret
  /\ UNCHANGED <<dest, dest0, resp, umask>>

\* resp.StatusCode != http.StatusOK
DownloadStatus ==
  /\ dpc = "status"
  /\ IF resp.status # StatusOK
     THEN dpc' = "done" /\ dret' = "status"
     ELSE dpc' = "create" /\ UNCHANGED dret
  /\ UNCHANGED <<dest, dest0, resp, umask>>

\* os.Create(destPath): an existing file is truncated and keeps its mode, a
\* new file gets 0666 less the umask
DownloadCreate ==
  /\ dpc = "create"
  /\ \/ dpc' = "done" /\ dret' = "create" /\ UNCHANGED dest
     \/ /\ dest' = IF dest.exists THEN DestFile(<<>>, dest.mode)
                   ELSE DestFile(<<>>, ClearBits(Mode0666, umask))
        /\ dpc' = "copy" /\ UNCHANGED dret
  /\ UNCHANGED <<dest0, resp, umask>>

\* io.Copy(outFile, progressReader): the next chunk of the body is written,
\* or the read or the write fails; at the end of the body the copy returns
DownloadCopy ==
  /\ dpc = "copy"
  /\ \/ dpc' = "done" /\ dret' = "copy" /\ UNCHANGED dest
     \/ /\ Len(dest.content) < Len(resp.body)
        /\ dest' = [dest EXCEPT !.content = Append(@, resp.body[Len(@) + 1])]
        /\ UNCHANGED <<dpc, dret>>
     \/ /\ Len(dest.content) = Len(resp.body)
        /\ dpc' = "chmod" /\ UNCHANGED <<dest, dret>>
  /\ UNCHANGED <<dest0, resp, umask>>

\* downloadBinaryImpl returning without os.Chmod
DownloadChmodSkipped ==
  /\ dpc = "chmod"
  /\ dpc' = "done" /\ dret' = "none"
  /\ UNCHANGED <<dest, dest0, resp, umask>>

\* os.Chmod(destPath, 0755) except on Windows, and return nil
DownloadChmod ==
  /\ dpc = "chmod"
  /\ IF goos # "windows"
     THEN \/ dest' = [dest EXCEPT !.mode = Mode0755] /\ dpc' = "done" /\ dret' = "none"
          \/ dpc' = "done" /\ dret' = "chmod" /\ UNCHANGED dest
     ELSE dpc' = "done" /\ dret' = "none" /\ UNCHANGED dest
  /\ UNCHANGED <<dest0, resp, umask>>

InitDownloadIdle ==
  /\ dest = NoDest /\ dest0 = NoDest
  /\ resp = [status |-> StatusOK, body |-> <<>>]
  /\ umask = <<0, 2, 2>> /\ dpc = "off" /\ dret = "none"

(***************************************************************************)
(* The active version: isCurrentVersion.                                   *)
(***************************************************************************)
\* the characters of the model; Space and Newline are white space
Space == " "
Newline == "\n"
OutChars == {"v", "2", Space, Newline}
IsSpace(c) == c = Space \/ c = Newline

StringsUpTo(n) == UNION {[1..k -> OutChars] : k \in 0..n}

\* strings.TrimSpace
RECURSIVE TrimLeft(_)
TrimLeft(s) == IF s # <<>> /\ IsSpace(Head(s)) THEN TrimLeft(Tail(s)) ELSE s
RECURSIVE TrimRight(_)
TrimRight(s) ==
  IF s # <<>> /\ IsSpace(s[Len(s)]) THEN TrimRight(SubSeq(s, 1, Len(s) - 1)) ELSE s
TrimSpace(s) == TrimRight(TrimLeft(s))

\* cmd.Output() of exec.Command("ddn", "--version"): the command cannot be
\* started or exits with an error, or it printed out
RunFailed == [ok |-> FALSE, out |-> <<>>]
RunPrinted(o) == [ok |-> TRUE, out |-> o]

\* isCurrentVersion comparing for equality
IsCurrentVersionExact(run, version) ==
  IF ~run.ok THEN FALSE ELSE TrimSpace(run.out) = version

\* isCurrentVersion
IsCurrentVersion(run, version) ==
  IF ~run.ok THEN FALSE ELSE Contains(TrimSpace(run.out), version)

\* isCurrentVersion is called
CurrentCheck ==
  /\ cpc = "start"
  /\ isCur' = IsCurrentVersion(ddnRun, query)
  /\ cpc' = "done"
  /\ UNCHANGED <<ddnRun, query>>

(***************************************************************************)
(* Paths.  A path is the sequence of its segments below the file-system    *)
(* root; a version string of the command line is the sequence of the       *)
(* segments its path separators split it into, so the empty string is one  *)
(* empty segment.  The disk is the set of the paths that exist.            *)
(***************************************************************************)
\* os.UserHomeDir()
getHomeDir == <<"home">>

\* the constants installDir and binName
installDir == ".ddnswitch"
binName    == "ddn"

RECURSIVE CleanFrom(_, _)
CleanFrom(done, rest) ==
  IF rest = <<>> THEN done
  ELSE LET seg == Head(rest) IN
       CleanFrom(IF seg \in {"", "."} THEN done
                 ELSE IF seg = ".."
                      THEN IF done = <<>> THEN done
                           ELSE SubSeq(done, 1, Len(done) - 1)
                      ELSE Append(done, seg),
                 Tail(rest))

\* filepath.Clean of a rooted path: empty and "." segments vanish, ".."
\* takes the segment before it away and stays at the root
Clean(path) == CleanFrom(<<>>, path)

\* filepath.Join(base, elems)
Join(base, elems) == Clean(base \o elems)

\* getInstallDir: filepath.Join(home, installDir)
getInstallDir == Join(getHomeDir, <<installDir>>)

\* whether path is base or lies below it
IsPrefix(base, path) ==
  Len(base) <= Len(path) /\ SubSeq(path, 1, Len(base)) = base

\* the path and its ancestors
Ancestors(path) == {SubSeq(path, 1, k) : k \in 1..Len(path)}

\* os.Stat(path) succeeding
Exists(disk, path) == path = <<>> \/ path \in disk

\* os.RemoveAll(path): the path and everything below it
RemoveAll(disk, path) == {q \in disk : ~IsPrefix(path, q)}

\* os.MkdirAll(path): the path and the ancestors that are missing
MkdirAll(disk, path) == disk \cup Ancestors(path)

\* the version directories of the checked disks and their binaries
VersionNames == {"v2.0.0", "v3.0.0"}
VersionDirOf(v) == Join(getInstallDir, <<v>>)
BinPathOf(v) == Join(VersionDirOf(v), <<binName>>)

\* a file of the user outside the install root
UserFile == Join(getHomeDir, <<"notes">>)

\* the version strings a command line passes: cobra.ExactArgs(1) and
\* args[0] take any string
TagStrings ==
  {<<"v2.0.0">>, <<"v3.0.0">>, <<"">>, <<".">>, <<"..">>,
   <<"v3.0.0", "..">>, <<"..", "notes">>, <<"v2.0.0", "ddn">>}

\* the disks a command starts on: the home directory with a file of the
\* user, the install root or not, each version installed or not
Disks ==
  {{getHomeDir, UserFile}} \cup
  {{getHomeDir, UserFile, getInstallDir}
     \cup UNION {{VersionDirOf(v), BinPathOf(v)} : v \in vs} :
   vs \in SUBSET VersionNames}

InitPathIdle ==
  /\ tree = {} /\ tree0 = {} /\ ptag = <<>> /\ pop = "none"
  /\ ppc = "off" /\ pret = "none"

InitCurrentIdle ==
  /\ ddnRun = RunFailed /\ query = <<>> /\ isCur = FALSE /\ cpc = "off"

InitFreshIdle == rseq = 0 /\ rnum = [p \in Callers |-> 0] /\ enum = 0

InitMoreIdle == InitCurrentIdle /\ InitFreshIdle /\ InitPathIdle

InitAuxIdle == InitDownloadIdle /\ InitMoreIdle

\* a file that ddnswitch did not write appears in the directory of tag t
\* between two commands
ExternalWrite(t) ==
  /\ op = "none"
  /\ dirs[t].exists /\ ~dirs[t].extra
  /\ dirs' = [dirs EXCEPT ![t].extra = TRUE]
  /\ last' = <<>>
  /\ UNCHANGED <<goos, goarch, rootExists, link, cmdVars, start, ninst, out, got>>

\* the history of a command that has not started
NoStart == [dirs |-> [t \in InstallTags |-> AbsentDir], link |-> NoLink]

InitHistory ==
  /\ start = NoStart /\ last = <<>> /\ ninst = 0 /\ out = "none" /\ got = Garbage

\* the history kept along a step of a command: where it started, whether
\* it was a successful switch, the calls of installVersion, the report
\* "Already using DDN CLI version ..." or "Falling back to file copy", the
\* bytes of a completed download
History ==
  /\ start' = IF op = "none" /\ op' # "none" THEN [dirs |-> dirs, link |-> link]
              ELSE IF op' = "none" THEN NoStart
              ELSE start
  /\ last' = IF op # "none" /\ op' = "none"
             THEN IF op = "switch" /\ ferr = "none" THEN arg ELSE <<>>
             ELSE last
  /\ ninst' = IF op' = "none" THEN 0
              ELSE IF fpc # "i_ensure" /\ fpc' = "i_ensure" /\ ninst < MaxCounted
              THEN ninst + 1
              ELSE ninst
  /\ out' = IF op' = "none" THEN "none"
            ELSE IF fpc = "s_readlink" /\ fpc' = "done" THEN "already"
            ELSE IF fpc = "l_symlink" /\ fpc' = "l_copy" THEN "fallback"
            ELSE out
  /\ got' = IF op' = "none" THEN Garbage
            ELSE IF fpc = "i_download" /\ dl' = "ok" THEN dirs'[arg].bin.content
            ELSE got

InitInstallIdle ==
  /\ InitHistory
  /\ InitLinkIdle
  /\ InitAuxIdle
  /\ goos = "linux" /\ goarch = "amd64"
  /\ rootExists = FALSE
  /\ dirs = [t \in InstallTags |-> AbsentDir]
  /\ link = NoLink
  /\ op = "none" /\ arg = <<>> /\ fpc = "off" /\ ferr = "none"
  /\ pre = "none" /\ inst = "none" /\ dl = "none" /\ post = "none"

(***************************************************************************)
(* Spec: concurrent callers of fetchAvailableVersions.                     *)
(***************************************************************************)
InitCatalogIdle ==
  /\ catalog = <<>>
  /\ catFlag = FALSE
  /\ snapshot = <<>>
  /\ catPc = "off"

vars == <<cacheVars, catVars, fsVars, cmdVars, histVars, linkVars, auxVars, moreVars>>

Init == InitCache /\ InitCatalogIdle /\ InitInstallIdle

\* the history of sequential runs is not kept
NoHistory == UNCHANGED <<cur, prev>>

CacheOnly == UNCHANGED <<catVars, fsVars, cmdVars, histVars, linkVars, auxVars, moreVars>>

Next ==
  \/ \E p \in Callers : Call(p) /\ NoHistory /\ CacheOnly
  \/ \E p \in Callers : Check(p) /\ NoHistory /\ CacheOnly
  \/ \E p \in Callers : RUnlock(p) /\ NoHistory /\ CacheOnly
  \/ \E p \in Callers : FetchFail(p) /\ NoHistory /\ CacheOnly
  \/ \E p \in Callers : FetchOK(p) /\ NoHistory /\ CacheOnly
  \/ \E p \in Callers : LockAnnounce(p) /\ NoHistory /\ CacheOnly
  \/ \E p \in Callers : LockAcquire(p) /\ NoHistory /\ CacheOnly
  \/ \E p \in Callers : WriteCache(p) /\ NoHistory /\ CacheOnly
  \/ \E p \in Callers : WriteTime(p) /\ NoHistory /\ CacheOnly
  \/ \E p \in Callers : WriteFlag(p) /\ NoHistory /\ CacheOnly
  \/ \E p \in Callers : Unlock(p) /\ NoHistory /\ CacheOnly
  \/ \E p \in Callers : Finish(p) /\ NoHistory /\ CacheOnly
  \/ SetFlag /\ CacheOnly
  \/ Tick /\ CacheOnly

Spec == Init /\ [][Next]_vars

(***************************************************************************)
(* SpecFlag: Spec where the package variable includePrerelease, which no   *)
(* lock protects, is also written while calls are running.                 *)
(***************************************************************************)
\* includePrerelease is written, whatever the callers are doing
SetFlagAnyTime ==
  /\ includePrerelease' = ~includePrerelease
  /\ UNCHANGED <<versionCache, versionCacheTime, cachePrerelease,
                 rlocks, wlock, now, pc, releases, err, net, entry, cur, prev>>

NextFlag ==
  \/ Next
  \/ SetFlagAnyTime /\ CacheOnly

SpecFlag == Init /\ [][NextFlag]_vars

(***************************************************************************)
(* SpecFresh: Spec with the successful responses numbered in the order in  *)
(* which they arrive.                                                      *)
(***************************************************************************)
FreshFetchOK(p) ==
  /\ rseq < MaxResponses
  /\ FetchOK(p)
  /\ rseq' = rseq + 1
  /\ rnum' = [rnum EXCEPT ![p] = rseq + 1]
  /\ UNCHANGED enum

FreshWriteCache(p) ==
  /\ WriteCache(p)
  /\ enum' = rnum[p]
  /\ UNCHANGED <<rseq, rnum>>

NoFresh == UNCHANGED freshVars

FreshOnly ==
  UNCHANGED <<catVars, fsVars, cmdVars, histVars, linkVars, auxVars, curVars,
              pathVars>>

NextFresh ==
  \/ \E p \in Callers : Call(p) /\ NoHistory /\ NoFresh /\ FreshOnly
  \/ \E p \in Callers : Check(p) /\ NoHistory /\ NoFresh /\ FreshOnly
  \/ \E p \in Callers : RUnlock(p) /\ NoHistory /\ NoFresh /\ FreshOnly
  \/ \E p \in Callers : FetchFail(p) /\ NoHistory /\ NoFresh /\ FreshOnly
  \/ \E p \in Callers : FreshFetchOK(p) /\ NoHistory /\ FreshOnly
  \/ \E p \in Callers : LockAnnounce(p) /\ NoHistory /\ NoFresh /\ FreshOnly
  \/ \E p \in Callers : LockAcquire(p) /\ NoHistory /\ NoFresh /\ FreshOnly
  \/ \E p \in Callers : FreshWriteCache(p) /\ NoHistory /\ FreshOnly
  \/ \E p \in Callers : WriteTime(p) /\ NoHistory /\ NoFresh /\ FreshOnly
  \/ \E p \in Callers : WriteFlag(p) /\ NoHistory /\ NoFresh /\ FreshOnly
  \/ \E p \in Callers : Unlock(p) /\ NoHistory /\ NoFresh /\ FreshOnly
  \/ \E p \in Callers : Finish(p) /\ NoHistory /\ NoFresh /\ FreshOnly
  \/ SetFlag /\ NoFresh /\ FreshOnly
  \/ Tick /\ NoFresh /\ FreshOnly

SpecFresh == Init /\ [][NextFresh]_vars

(***************************************************************************)
(* SpecSeq: one call of fetchAvailableVersions at a time, with the history *)
(* of the current call (cur) and of the previous completed call (prev).    *)
(***************************************************************************)
NoCall == [at |-> ZeroTime, netAt |-> ZeroTime, before |-> <<<<>>, ZeroTime, FALSE>>]

SeqCall(p) ==
  /\ AllIdle
  /\ Call(p)
  /\ cur' = [NoCall EXCEPT !.before = Triple]
  /\ UNCHANGED prev

SeqCheck(p) ==
  /\ Check(p)
  /\ cur' = [cur EXCEPT !.at = now]
  /\ UNCHANGED prev

SeqFetchFail(p) ==
  /\ FetchFail(p)
  /\ cur' = [cur EXCEPT !.netAt = now]
  /\ UNCHANGED prev

SeqFetchOK(p) ==
  /\ FetchOK(p)
  /\ cur' = [cur EXCEPT !.netAt = now]
  /\ UNCHANGED prev

SeqFinish(p) ==
  /\ Finish(p)
  /\ prev' = [valid |-> TRUE, flag |-> includePrerelease, err |-> err[p],
              releases |-> releases[p], net |-> net[p], stamp |-> versionCacheTime]
  /\ cur' = NoCall

NextSeq ==
  \/ \E p \in Callers : SeqCall(p) /\ CacheOnly
  \/ \E p \in Callers : SeqCheck(p) /\ CacheOnly
  \/ \E p \in Callers : RUnlock(p) /\ NoHistory /\ CacheOnly
  \/ \E p \in Callers : SeqFetchFail(p) /\ CacheOnly
  \/ \E p \in Callers : SeqFetchOK(p) /\ CacheOnly
  \/ \E p \in Callers : LockAnnounce(p) /\ NoHistory /\ CacheOnly
  \/ \E p \in Callers : LockAcquire(p) /\ NoHistory /\ CacheOnly
  \/ \E p \in Callers : WriteCache(p) /\ NoHistory /\ CacheOnly
  \/ \E p \in Callers : WriteTime(p) /\ NoHistory /\ CacheOnly
  \/ \E p \in Callers : WriteFlag(p) /\ NoHistory /\ CacheOnly
  \/ \E p \in Callers : Unlock(p) /\ NoHistory /\ CacheOnly
  \/ \E p \in Callers : SeqFinish(p) /\ CacheOnly
  \/ SetFlag /\ CacheOnly
  \/ Tick /\ CacheOnly

SpecSeq == Init /\ [][NextSeq]_vars

(***************************************************************************)
(* SpecCatalog: the filtering and sorting of one decoded catalog.          *)
(***************************************************************************)
\* validReleases of a decoded catalog, as stored and returned
StoreValid ==
  /\ catPc = "decoded"
  /\ snapshot' = ValidReleases(catalog, catFlag)
  /\ catPc' = "stored"
  /\ UNCHANGED <<catalog, catFlag, cacheVars, fsVars, cmdVars, histVars, linkVars, auxVars, moreVars>>

InitCatalog ==
  /\ InitCache
  /\ includePrerelease = FALSE
  /\ catalog \in CatalogsUpTo(MaxCatalog) \cup {ExampleCatalog}
  /\ catFlag \in BOOLEAN
  /\ snapshot = <<>>
  /\ catPc = "decoded"
  /\ InitInstallIdle

NextCatalog == StoreValid

SpecCatalog == InitCatalog /\ [][NextCatalog]_vars

(***************************************************************************)
(* SpecInstall: install, switch and uninstall commands, one at a time.     *)
(***************************************************************************)
InitInstall ==
  /\ InitCache /\ includePrerelease = FALSE
  /\ InitCatalogIdle
  /\ InitHistory
  /\ InitLinkIdle
  /\ InitAuxIdle
  /\ goos \in OSNames /\ goarch \in ArchNames
  /\ rootExists = FALSE
  /\ dirs = [t \in InstallTags |-> AbsentDir]
  /\ link = NoLink
  /\ op = "none" /\ arg = <<>> /\ fpc = "off" /\ ferr = "none"
  /\ pre = "none" /\ inst = "none" /\ dl = "none" /\ post = "none"

InstallOnly == UNCHANGED <<cacheVars, catVars, linkVars, auxVars, moreVars>>

NextInstall ==
  \/ \E t \in InstallTags : StartInstall(t) /\ History /\ InstallOnly
  \/ \E t \in InstallTags : StartSwitch(t) /\ History /\ InstallOnly
  \/ \E t \in InstallTags : StartUninstall(t) /\ History /\ InstallOnly
  \/ InstallEnsureDir /\ History /\ InstallOnly
  \/ InstallCleanup /\ History /\ InstallOnly
  \/ InstallMkdir /\ History /\ InstallOnly
  \/ DownloadNoFile /\ History /\ InstallOnly
  \/ DownloadBrokenFile /\ History /\ InstallOnly
  \/ DownloadOK /\ History /\ InstallOnly
  \/ InstallVerify /\ History /\ InstallOnly
  \/ SwitchEnsureDir /\ History /\ InstallOnly
  \/ SwitchStat /\ History /\ InstallOnly
  \/ SwitchChmod /\ History /\ InstallOnly
  \/ SwitchVerify /\ History /\ InstallOnly
  \/ SwitchLinkPath /\ History /\ InstallOnly
  \/ SwitchReadlink /\ History /\ InstallOnly
  \/ SymlinkRemove /\ History /\ InstallOnly
  \/ SymlinkCreate /\ History /\ InstallOnly
  \/ CopyFileFails /\ History /\ InstallOnly
  \/ CopyFileOK /\ History /\ InstallOnly
  \/ SwitchPostCheck /\ History /\ InstallOnly
  \/ UninstallVersion /\ History /\ InstallOnly
  \/ Exit /\ History /\ InstallOnly
  \/ \E t \in InstallTags : ExternalWrite(t) /\ InstallOnly

SpecInstall == InitInstall /\ [][NextInstall]_vars

(***************************************************************************)
(* SpecDownload: one call of downloadBinaryImpl, for every status, every   *)
(* body of up to MaxBody chunks, every file or none at destPath, on Linux  *)
(* and on Windows.                                                         *)
(***************************************************************************)
InitOthersIdle ==
  /\ InitCache /\ includePrerelease = FALSE
  /\ InitCatalogIdle
  /\ InitHistory
  /\ InitLinkIdle
  /\ goarch = "amd64"
  /\ rootExists = FALSE
  /\ dirs = [t \in InstallTags |-> AbsentDir]
  /\ link = NoLink
  /\ op = "none" /\ arg = <<>> /\ fpc = "off" /\ ferr = "none"
  /\ pre = "none" /\ inst = "none" /\ dl = "none" /\ post = "none"

InitDownload ==
  /\ InitOthersIdle
  /\ InitMoreIdle
  /\ goos \in {"linux", "windows"}
  /\ resp \in [status : Statuses, body : BodiesUpTo(MaxBody)]
  /\ dest \in {NoDest} \cup {DestFile(c, m) : c \in BodiesUpTo(MaxBody), m \in Modes}
  /\ dest0 = dest
  /\ umask \in Umasks
  /\ dpc = "get" /\ dret = "none"

AuxOnly == UNCHANGED <<cacheVars, catVars, fsVars, cmdVars, histVars, linkVars, moreVars>>

NextDownload ==
  \/ DownloadGet /\ AuxOnly
  \/ DownloadStatus /\ AuxOnly
  \/ DownloadCreate /\ AuxOnly
  \/ DownloadCopy /\ AuxOnly
  \/ DownloadChmod /\ AuxOnly

SpecDownload == InitDownload /\ [][NextDownload]_vars

(***************************************************************************)
(* SpecCurrent: one call of isCurrentVersion, for every output of up to    *)
(* MaxOut characters (or a failing command) and every version string of up *)
(* to MaxQuery characters.                                                 *)
(***************************************************************************)
InitCurrent ==
  /\ InitOthersIdle
  /\ InitDownloadIdle
  /\ goos = "linux"
  /\ ddnRun \in {RunFailed} \cup {RunPrinted(o) : o \in StringsUpTo(MaxOut)}
  /\ query \in StringsUpTo(MaxQuery)
  /\ isCur = FALSE /\ cpc = "start"
  /\ InitFreshIdle
  /\ InitPathIdle

CurrentOnly ==
  UNCHANGED <<cacheVars, catVars, fsVars, cmdVars, histVars, linkVars, auxVars,
              freshVars, pathVars>>

NextCurrent == CurrentCheck /\ CurrentOnly

SpecCurrent == InitCurrent /\ [][NextCurrent]_vars

(***************************************************************************)
(* SpecPath: install, switch and uninstall commands, one after the other,  *)
(* on Linux/amd64, for every version string of TagStrings and every disk   *)
(* of Disks.  Only the paths the commands compute and what they do to the  *)
(* disk are kept; the link lives outside the install root (SpecLink).      *)
(***************************************************************************)
PathGoto(l) == ppc' = l /\ pret' = pret

PathReturns(cause) == ppc' = "done" /\ pret' = cause

\* filepath.Join(installPath, version)
VersionDir == Join(getInstallDir, ptag)

\* filepath.Join(versionDir, binName)
BinPath == Join(VersionDir, <<binName>>)

\* os.RemoveAll returning an error: nothing removed, or the entries below
\* the path removed and the path itself left
RemoveAllFailed(disk, path) ==
  {disk, {q \in disk : ~IsPrefix(path, q) \/ q = path}}

\* main: the root command with args[0], installCmd and uninstallCmd
PathStart ==
  /\ ppc \in {"off", "done"}
  /\ \E o \in {"install", "switch", "uninstall"}, t \in TagStrings :
       /\ pop' = o /\ ptag' = t
       /\ ppc' = CASE o = "install" -> "i_ensure"
                   [] o = "switch" -> "s_ensure"
                   [] OTHER -> "u_stat"
  /\ tree0' = tree /\ pret' = "none"
  /\ UNCHANGED tree

\* ensureInstallDir at the start of switchToVersion and of
\* installVersionImpl
PathEnsureInstallDir ==
  /\ ppc \in {"s_ensure", "i_ensure"}
  /\ \/ /\ tree' = MkdirAll(tree, getInstallDir)
        /\ PathGoto(IF ppc = "s_ensure" THEN "s_stat" ELSE "i_clean")
     \/ PathReturns("installdir") /\ UNCHANGED tree
  /\ UNCHANGED <<tree0, ptag, pop>>

\* switchToVersion: os.Stat(binPath), installVersion when it is missing or
\* when verifyBinary rejects it
PathSwitchStat ==
  /\ ppc = "s_stat"
  /\ IF Exists(tree, BinPath)
     THEN PathGoto("s_link") \/ PathGoto("i_ensure")
     ELSE PathGoto("i_ensure")
  /\ UNCHANGED <<tree, tree0, ptag, pop>>

\* installVersionImpl: os.Stat(versionDir) and os.RemoveAll(versionDir)
PathCleanup ==
  /\ ppc = "i_clean"
  /\ IF Exists(tree, VersionDir)
     THEN \/ tree' = RemoveAll(tree, VersionDir) /\ PathGoto("i_mkdir")
          \/ tree' \in RemoveAllFailed(tree, VersionDir) /\ PathReturns("cleanup")
     ELSE PathGoto("i_mkdir") /\ UNCHANGED tree
  /\ UNCHANGED <<tree0, ptag, pop>>

\* installVersionImpl: os.MkdirAll(versionDir, 0755)
PathMkdir ==
  /\ ppc = "i_mkdir"
  /\ \/ tree' = MkdirAll(tree, VersionDir) /\ PathGoto("i_download")
     \/ PathReturns("mkdir") /\ UNCHANGED tree
  /\ UNCHANGED <<tree0, ptag, pop>>

\* installVersionImpl: downloadBinary(downloadURL, binPath), chmod and
\* verifyBinary
PathDownload ==
  /\ ppc = "i_download"
  /\ \/ /\ tree' = tree \cup {BinPath}
        /\ \/ IF pop = "switch" THEN PathGoto("s_link") ELSE PathReturns("ok")
           \/ PathReturns("download")
           \/ PathReturns("verify")
     \/ PathReturns("download") /\ UNCHANGED tree
  /\ UNCHANGED <<tree0, ptag, pop>>

\* switchToVersion from the verification of the binary on: the link is
\* outside the install root
PathSwitchLink ==
  /\ ppc = "s_link"
  /\ \E cause \in {"ok", "verify", "symlink"} : PathReturns(cause)
  /\ UNCHANGED <<tree, tree0, ptag, pop>>

\* uninstallVersion
PathUninstall ==
  /\ ppc = "u_stat"
  /\ IF ~Exists(tree, VersionDir)
     THEN PathReturns("notinstalled") /\ UNCHANGED tree
     ELSE \/ tree' = RemoveAll(tree, VersionDir) /\ PathReturns("ok")
          \/ tree' \in RemoveAllFailed(tree, VersionDir) /\ PathReturns("remove")
  /\ UNCHANGED <<tree0, ptag, pop>>

InitPath ==
  /\ InitOthersIdle
  /\ InitDownloadIdle
  /\ InitCurrentIdle
  /\ InitFreshIdle
  /\ goos = "linux"
  /\ tree \in Disks /\ tree0 = tree
  /\ ptag = <<>> /\ pop = "none" /\ ppc = "off" /\ pret = "none"

PathOnly ==
  UNCHANGED <<cacheVars, catVars, fsVars, cmdVars, histVars, linkVars, auxVars,
              curVars, freshVars>>

NextPath ==
  \/ PathStart /\ PathOnly
  \/ PathEnsureInstallDir /\ PathOnly
  \/ PathSwitchStat /\ PathOnly
  \/ PathCleanup /\ PathOnly
  \/ PathMkdir /\ PathOnly
  \/ PathDownload /\ PathOnly
  \/ PathSwitchLink /\ PathOnly
  \/ PathUninstall /\ PathOnly

SpecPath == InitPath /\ [][NextPath]_vars

(***************************************************************************)
(* SpecResolve: one call of getSymlinkPath, for every PATH of up to         *)
(* MaxPath entries, every set of writable directories, on Linux and on     *)
(* Windows.                                                                *)
(***************************************************************************)
InitResolve ==
  /\ InitCache /\ includePrerelease = FALSE
  /\ InitCatalogIdle
  /\ InitHistory
  /\ goos \in {"linux", "windows"} /\ goarch = "amd64"
  /\ rootExists = FALSE
  /\ dirs = [t \in InstallTags |-> AbsentDir]
  /\ link = NoLink
  /\ op = "none" /\ arg = <<>> /\ fpc = "off" /\ ferr = "none"
  /\ pre = "none" /\ inst = "none" /\ dl = "none" /\ post = "none"
  /\ pathDirs \in PathsUpTo(MaxPath)
  /\ writable \in SUBSET Dirs
  /\ homeBinOK \in HomeBinStates(writable)
  /\ debugMode \in BOOLEAN
  /\ resolved = NoPath /\ rpc = "start"
  /\ links = [d \in Dirs |-> NoLink] /\ ltag = <<>> /\ lres = "none"
  /\ InitAuxIdle

ResolveOnly == UNCHANGED <<cacheVars, catVars, fsVars, cmdVars, histVars, auxVars, moreVars>>

NextResolve == Resolve /\ ResolveOnly

SpecResolve == InitResolve /\ [][NextResolve]_vars

(***************************************************************************)
(* SpecLink: switch commands of one user on Linux, one after the other,    *)
(* each with its own PATH of up to MaxLinkPath entries, from the call of   *)
(* getSymlinkPath on; the directories the user can write to are fixed.     *)
(***************************************************************************)
InitLink ==
  /\ InitCache /\ includePrerelease = FALSE
  /\ InitCatalogIdle
  /\ InitHistory
  /\ goos = "linux" /\ goarch = "amd64"
  /\ rootExists = FALSE
  /\ dirs = [t \in InstallTags |-> AbsentDir]
  /\ link = NoLink
  /\ op = "none" /\ arg = <<>> /\ fpc = "off" /\ ferr = "none"
  /\ pre = "none" /\ inst = "none" /\ dl = "none" /\ post = "none"
  /\ pathDirs = <<>>
  /\ writable \in SUBSET Dirs
  /\ homeBinOK \in HomeBinStates(writable)
  /\ debugMode = FALSE
  /\ resolved = NoPath /\ rpc = "off"
  /\ links = [d \in Dirs |-> NoLink] /\ ltag = <<>> /\ lres = "none"
  /\ InitAuxIdle

NextLink ==
  \/ \E t \in InstallTags, p \in PathsUpTo(MaxLinkPath) : LinkStart(t, p) /\ ResolveOnly
  \/ Resolve /\ ResolveOnly
  \/ LinkPathFailed /\ ResolveOnly
  \/ LinkReadlink /\ ResolveOnly
  \/ LinkCreate /\ ResolveOnly
  \/ LinkExit /\ ResolveOnly

SpecLink == InitLink /\ [][NextLink]_vars

(***************************************************************************)
(* SpecSwitch: switch commands alone, one after the other; a command that  *)
(* has started takes its next step (every system call, every run of a      *)
(* binary and the download request return).                                *)
(***************************************************************************)
SwitchStep ==
  \/ InstallEnsureDir /\ History /\ InstallOnly
  \/ InstallCleanup /\ History /\ InstallOnly
  \/ InstallMkdir /\ History /\ InstallOnly
  \/ DownloadNoFile /\ History /\ InstallOnly
  \/ DownloadBrokenFile /\ History /\ InstallOnly
  \/ DownloadOK /\ History /\ InstallOnly
  \/ InstallVerify /\ History /\ InstallOnly
  \/ SwitchEnsureDir /\ History /\ InstallOnly
  \/ SwitchStat /\ History /\ InstallOnly
  \/ SwitchChmod /\ History /\ InstallOnly
  \/ SwitchVerify /\ History /\ InstallOnly
  \/ SwitchLinkPath /\ History /\ InstallOnly
  \/ SwitchReadlink /\ History /\ InstallOnly
  \/ SymlinkRemove /\ History /\ InstallOnly
  \/ SymlinkCreate /\ History /\ InstallOnly
  \/ CopyFileFails /\ History /\ InstallOnly
  \/ CopyFileOK /\ History /\ InstallOnly
  \/ SwitchPostCheck /\ History /\ InstallOnly

NextSwitch ==
  \/ \E t \in InstallTags : StartSwitch(t) /\ History /\ InstallOnly
  \/ SwitchStep
  \/ Exit /\ History /\ InstallOnly

SpecSwitch == InitInstall /\ [][NextSwitch]_vars /\ WF_vars(SwitchStep)

(***************************************************************************)
(* SpecProc: SpecSeq over several invocations of the command. Each         *)
(* invocation is a process of its own: main runs one command, which calls  *)
(* fetchAvailableVersions at most once, and exits; the package variables   *)
(* of the next process start at their initial values.                      *)
(***************************************************************************)
\* the process exits and the next invocation starts
Restart ==
  /\ AllIdle
  /\ prev.valid
  /\ versionCache' = <<>>
  /\ versionCacheTime' = ZeroTime
  /\ cachePrerelease' = FALSE
  /\ entry' = <<<<>>, ZeroTime, FALSE>>
  /\ UNCHANGED <<includePrerelease, rlocks, wlock, now, pc, releases, err, net,
                 cur, prev>>

NextProc ==
  \/ NextSeq
  \/ Restart /\ CacheOnly

SpecProc == Init /\ [][NextProc]_vars

(***************************************************************************)
(* SpecNet: SpecSwitch with a download server that may stop answering;     *)
(* every step that is enabled is taken.                                    *)
(***************************************************************************)
NetStep ==
  \/ SwitchStep
  \/ DownloadStalls /\ History /\ InstallOnly

NextNet ==
  \/ \E t \in InstallTags : StartSwitch(t) /\ History /\ InstallOnly
  \/ SwitchStep
  \/ DownloadStalls /\ History /\ InstallOnly
  \/ Exit /\ History /\ InstallOnly

SpecNet == InitInstall /\ [][NextNet]_vars /\ WF_vars(NetStep)

(***************************************************************************)
(* Claims on the version cache (SpecSeq).                                  *)
(***************************************************************************)
\* the previous call succeeded with the flag of the current call, and the
\* current call checked the cache less than cacheTTL after the entry that
\* served the previous call was fetched
SameFlagWithinTTL ==
  /\ prev.valid
  /\ prev.err = "none"
  /\ prev.flag = includePrerelease
  /\ cur.at - prev.stamp < cacheTTL

\* C1 as stated: a call that follows a successful call with the same flag
\* within the TTL returns the same snapshot without a network call, whatever
\* the length of the snapshot.
C1_AnyLength ==
  \A p \in Callers :
    pc[p] = "done" /\ SameFlagWithinTTL
      => err[p] = "none" /\ releases[p] = prev.releases /\ net[p] = 0

\* C1 amended: a call that follows a successful call with the same flag
\* within the TTL returns the same snapshot without a network call if that
\* snapshot is not empty; an empty snapshot is never served from the cache,
\* the call makes one network call.
C1_NonEmptySnapshotServed ==
  \A p \in Callers :
    pc[p] = "done" /\ SameFlagWithinTTL
      => IF prev.releases # <<>>
         THEN err[p] = "none" /\ releases[p] = prev.releases /\ net[p] = 0
         ELSE net[p] = 1

C1_Witness ==
  \E p \in Callers :
    /\ pc[p] = "done" /\ SameFlagWithinTTL
    /\ prev.releases # <<>> /\ prev.net = 1
    /\ releases[p] = prev.releases /\ net[p] = 0
    /\ cur.at > prev.stamp

\* the current call checked the cache when the entry was cacheTTL old or older
Expired == cur.at - cur.before[2] >= cacheTTL

\* an expired entry is never served: one network call, and on success the
\* entry is the returned snapshot, stamped (not before the response came)
\* with the time of the write, under the flag of the call
ExpiredRefetched ==
  \A p \in Callers :
    pc[p] = "done" /\ Expired
      => /\ net[p] = 1
         /\ err[p] = "none"
              => /\ versionCache = releases[p]
                 /\ cachePrerelease = includePrerelease
                 /\ cur.netAt <= versionCacheTime
                 /\ versionCacheTime <= now

\* C2 as stated: an expired entry is refetched with exactly one network
\* call and replaced, and the next call with the same flag within the TTL
\* makes no network call.
C2_RefreshThenServed ==
  /\ ExpiredRefetched
  /\ \A p \in Callers :
       pc[p] = "done" /\ SameFlagWithinTTL /\ prev.net = 1 => net[p] = 0

\* C2 amended: an expired entry is refetched with exactly one network call
\* and replaced, and the next call with the same flag within the TTL makes
\* no network call provided the new snapshot is not empty.
C2_RefreshThenServedNonEmpty ==
  /\ ExpiredRefetched
  /\ \A p \in Callers :
       pc[p] = "done" /\ SameFlagWithinTTL /\ prev.net = 1 /\ prev.releases # <<>>
         => net[p] = 0

\* an entry written earlier has expired and was replaced by a later call
C2_Witness ==
  \E p \in Callers :
    /\ pc[p] = "done" /\ Expired /\ err[p] = "none" /\ net[p] = 1
    /\ cur.before[1] # <<>>
    /\ cur.before[3] = includePrerelease
    /\ versionCache = releases[p] /\ versionCacheTime > cur.before[2]

\* C3: a call whose flag differs from the flag of the entry written by the
\* previous call, within the TTL, makes a network call, and what it returns
\* holds no draft and, with the flag off, no pre-release.
C3_FlagMismatchRefetches ==
  \A p \in Callers :
    /\ pc[p] = "done"
    /\ prev.valid /\ prev.err = "none"
    /\ prev.flag # includePrerelease
    /\ cur.at - prev.stamp < cacheTTL
    => /\ net[p] = 1
       /\ \A i \in 1..Len(releases[p]) :
            /\ ~releases[p][i].draft
            /\ includePrerelease \/ ~releases[p][i].prerelease

\* getSnapshot(true) has stored a pre-release, getSnapshot(false) follows
C3_Witness ==
  \E p \in Callers :
    /\ pc[p] = "done" /\ err[p] = "none"
    /\ prev.valid /\ prev.err = "none" /\ prev.flag /\ ~includePrerelease
    /\ \E i \in 1..Len(prev.releases) : prev.releases[i].prerelease
    /\ cur.at - prev.stamp < cacheTTL
    /\ net[p] = 1 /\ releases[p] # <<>>

\* C4: a call that ends with an error returns no releases and leaves the
\* cache entry as it was when the call began.
C4_FailedFetchKeepsEntry ==
  \A p \in Callers :
    pc[p] = "done" /\ err[p] # "none"
      => releases[p] = <<>> /\ Triple = cur.before

C4_Witness ==
  \E p \in Callers :
    /\ pc[p] = "done" /\ err[p] = "status"
    /\ cur.before[1] # <<>> /\ Triple = cur.before

(***************************************************************************)
(* Claims on the lock (Spec).                                              *)
(***************************************************************************)
Writing(p) == pc[p] \in {"w1", "w2", "w3", "w4"}

\* C5: while a caller holds the read lock, the three fields are those of one
\* complete replacement (or the initial entry) and no caller is writing.
C5_ReadersSeeWholeEntry ==
  rlocks # {} => Triple = entry /\ \A q \in Callers : ~Writing(q)

\* two readers hold the lock together, on an entry a writer has replaced
C5_Witness ==
  /\ Cardinality(rlocks) >= 2
  /\ \A p \in rlocks : pc[p] = "hit"
  /\ entry[1] # <<>>

(***************************************************************************)
(* Claims on filtering and sorting (SpecCatalog).                          *)
(***************************************************************************)
Range(f) == {f[i] : i \in DOMAIN f}

\* C6: the stored snapshot holds exactly the releases of the catalog that
\* are no draft and, unless the flag is on, no pre-release, each once; the
\* example catalog without pre-releases yields v3.0.0, v1.5.0.
C6_ExactFilter ==
  catPc = "stored"
    => /\ Range(snapshot) =
            {r \in Range(catalog) : ~r.draft /\ (catFlag \/ ~r.prerelease)}
       /\ Len(snapshot) = Cardinality(Range(snapshot))
       /\ catalog = ExampleCatalog /\ ~catFlag
            => snapshot = <<Rel(V3_0_0, FALSE, FALSE), Rel(V1_5_0, FALSE, FALSE)>>

C6_Witness ==
  /\ catPc = "stored"
  /\ catalog = ExampleCatalog /\ ~catFlag
  /\ snapshot = <<Rel(V3_0_0, FALSE, FALSE), Rel(V1_5_0, FALSE, FALSE)>>

\* C7: any two tags of the stored snapshot that both parse as semantic
\* versions stand in non-increasing version order.
C7_ParsedTagsDescending ==
  catPc = "stored"
    => \A i, j \in 1..Len(snapshot) :
         LET vi == NewVersion(TrimPrefixV(snapshot[i].tag))
             vj == NewVersion(TrimPrefixV(snapshot[j].tag))
         IN  i < j /\ vi.ok /\ vj.ok => ~GreaterThan(vj, vi)

(***************************************************************************)
(* Claims on install and switch (SpecInstall).                             *)
(***************************************************************************)
\* C8: installVersion returns success only if the download succeeded and
\* the downloaded binary runs the version query and prints the tag.
C8_InstallSuccessVerified ==
  fpc = "done" /\ op = "install" /\ ferr = "none"
    => dl = "ok" /\ Reports(goos, dirs[arg], arg)

\* a successful install over a previous content of the directory
C8_Witness ==
  /\ fpc = "done" /\ op = "install" /\ ferr = "none"
  /\ dl = "ok" /\ Reports(goos, dirs[arg], arg)
  /\ \E t \in InstallTags : t # arg /\ dirs[t].hasBin

\* C9 (in its weakest reading: only successful commands count, an empty
\* directory is no installed version, and reporting a tag is printing a
\* string that contains it): after a completed install or switch, every
\* binary in a version directory reports the tag of its directory.
C9_NoMismatchedBinaryLeft ==
  fpc = "done" /\ op \in {"install", "switch"} /\ ferr = "none"
    => \A t \in InstallTags : dirs[t].hasBin => Reports(goos, dirs[t], t)

\* the entry at the link path is the binary of tag t: a symbolic link to
\* its path or, after the copy fallback, a copy of it
ActiveIs(t) ==
  \/ link.kind = "symlink" /\ link.target = t
  \/ link.kind = "file" /\ dirs[t].hasBin /\ link.file = dirs[t].bin

\* C10 as stated: a present binary that fails the version query or reports
\* another version is reinstalled; if the reinstall succeeds the switch
\* succeeds with the link at the binary of the tag, which reports the tag;
\* if it fails the switch returns that failure.
C10_ReinstallThenSwitched ==
  fpc = "done" /\ op = "switch" /\ pre = "bad"
    => /\ inst # "none"
       /\ inst = "failed" => ferr = "reinstall"
       /\ inst = "ok"
            => ferr = "none" /\ ActiveIs(arg) /\ Reports(goos, dirs[arg], arg)

\* C10 amended: a present binary that fails the version query or reports
\* another version is reinstalled; if the reinstall fails the switch returns
\* that failure; if it succeeds the switch fails only when the link path
\* cannot be resolved or the link cannot be created, and when the switch
\* succeeds the link is at the binary of the tag, which reports the tag.
C10_ReinstallThenSwitchedUnlessLinkFails ==
  fpc = "done" /\ op = "switch" /\ pre = "bad"
    => /\ inst # "none"
       /\ inst = "failed" => ferr = "reinstall"
       /\ inst = "ok" => ferr \in {"none", "linkpath", "symlink"}
       /\ ferr = "none"
            => inst = "ok" /\ ActiveIs(arg) /\ Reports(goos, dirs[arg], arg)

\* a binary that ran but reported another version was replaced, and the
\* link moved from another version to the tag
C10_Witness ==
  /\ fpc = "done" /\ op = "switch" /\ pre = "bad"
  /\ inst = "ok" /\ ferr = "none"
  /\ link = LinkTo(arg) /\ Reports(goos, dirs[arg], arg)

(***************************************************************************)
(* Claims on the active link (SpecInstall).                                *)
(***************************************************************************)
\* the running command is a switch that has returned success
SwitchSucceeded == fpc = "done" /\ op = "switch" /\ ferr = "none"

\* C11 as stated: whenever switchToVersion returns success, the entry at the
\* link path is a symbolic link to the binary path of the tag, and the
\* binary is there, whatever the link path held before.
C11_LinkResolvesToBinary ==
  SwitchSucceeded => link = LinkTo(arg) /\ dirs[arg].hasBin

\* C11 amended: whenever switchToVersion returns success, the binary of the
\* tag is there and the entry at the link path is a symbolic link to its
\* path or, when os.Symlink failed, a regular file with its bytes and mode,
\* whatever the link path held before.
C11_LinkIsBinaryOrCopy ==
  SwitchSucceeded
    => /\ dirs[arg].hasBin
       /\ link = LinkTo(arg) \/ link = LinkFile(dirs[arg].bin)

\* a switch that started from a broken link to another version
C11_Witness ==
  /\ SwitchSucceeded
  /\ start.link.kind = "symlink" /\ start.link.target # arg
  /\ ~start.dirs[start.link.target].hasBin
  /\ link = LinkTo(arg) /\ dirs[arg].hasBin

\* the running command is a switch to the tag that the command before it
\* switched to with success, nothing having touched the files in between
SecondSwitch == op = "switch" /\ last = arg

\* C12 (counting only second calls that return success): the second of two
\* switches to the same tag in a row reports "already active" and leaves the
\* link entry and the version directory as they were, in symlink mode and
\* in copy mode.
C12_SecondSwitchAlreadyActive ==
  fpc = "done" /\ SecondSwitch /\ ferr = "none"
    => out = "already" /\ link = start.link /\ dirs[arg] = start.dirs[arg]

\* os.Symlink failed in the running switch and copyFile was called
FellBack == op = "switch" /\ out = "fallback"

\* C13 as stated: when os.Symlink fails, the switch still succeeds, and the
\* file at the link path has the bytes and the mode of the binary.
C13_FallbackSucceeds ==
  fpc = "done" /\ FellBack => ferr = "none" /\ link = LinkFile(dirs[arg].bin)

\* C13 amended: when os.Symlink fails, copyFile is called; if it succeeds,
\* the switch succeeds and the file at the link path has the bytes and the
\* mode of the binary; if it fails, the switch fails with that error, and the
\* link path is empty or holds a regular file.
C13_FallbackCopiesUnlessCopyFails ==
  /\ fpc = "s_postcheck" /\ FellBack => link = LinkFile(dirs[arg].bin)
  /\ fpc = "done" /\ FellBack
       => /\ ferr \in {"none", "symlink"}
          /\ ferr = "none" => link = LinkFile(dirs[arg].bin)
          /\ ferr = "symlink" => link.kind \in {"none", "file"}

\* a link to another version was replaced by a copy of an executable binary
C13_Witness ==
  /\ fpc = "done" /\ FellBack /\ ferr = "none"
  /\ start.link.kind = "symlink" /\ start.link.target # arg
  /\ dirs[arg].bin.exec /\ link = LinkFile(dirs[arg].bin)

\* C14 (an entry for a version being a symbolic link to its binary or a
\* copy of it): while a switch runs that started with the link at another
\* version, the link path holds the entry it started with or an entry for
\* the tag; it is never empty and never holds anything else.
C14_RepointIsAtomic ==
  /\ op = "switch"
  /\ start.link.kind = "symlink" /\ start.link.target # arg
  => link = start.link \/ ActiveIs(arg)

(***************************************************************************)
(* Claims on the platform check (SpecInstall).                             *)
(***************************************************************************)
LinuxArm == goos = "linux" /\ goarch \in {"arm64", "arm"}

\* C15: on Linux on arm64 or arm, installVersion never gets past the
\* platform check: no download is attempted, no version directory is made,
\* and for every tag the install command ends with an error, that of the
\* platform check unless the install root could not be made.
C15_LinuxArmRejected ==
  LinuxArm
    => /\ dl = "none" /\ inst # "ok"
       /\ fpc \notin {"i_clean", "i_mkdir", "i_download", "i_verify"}
       /\ \A t \in InstallTags : dirs[t] = AbsentDir
       /\ fpc = "done" /\ op = "install" => ferr \in {"unsupported", "installdir"}
       /\ fpc = "done" /\ op = "switch" => ferr \in {"install", "installdir"}

C15_Witness ==
  /\ goos = "linux" /\ goarch = "arm64"
  /\ fpc = "done" /\ op = "install" /\ ferr = "unsupported"
  /\ rootExists /\ dl = "none"

\* the platforms of the README: Linux x86_64, macOS x86_64 and arm64,
\* Windows x86_64
SupportedPlatforms ==
  {<<"linux", "amd64">>, <<"darwin", "amd64">>, <<"darwin", "arm64">>,
   <<"windows", "amd64">>}

\* C16 as stated: a download is requested only on a supported platform, and
\* on every other platform installVersion ends with an error without a
\* download.
C16_DownloadOnlyOnSupported ==
  <<goos, goarch>> \notin SupportedPlatforms => dl = "none" /\ inst # "ok"

\* C16 amended: installVersion rejects Linux on arm64 and on arm before any
\* download; on every other platform it never returns the platform error,
\* and it requests the download once the version directory is made, also
\* on platforms that are not among the supported ones.
C16_OnlyLinuxArmRejected ==
  /\ LinuxArm => dl = "none" /\ inst # "ok"
  /\ ~LinuxArm
       => /\ fpc = "done" /\ op = "install" => ferr # "unsupported"
          /\ fpc = "done" /\ op = "install" /\ dl = "none"
               => ferr \in {"installdir", "cleanup", "mkdir"}

\* a download on Windows on arm64
C16_Witness ==
  /\ goos = "windows" /\ goarch = "arm64"
  /\ fpc = "done" /\ op = "install" /\ dl = "status" /\ ferr = "download"

(***************************************************************************)
(* Claims on the version directory (SpecInstall).                          *)
(***************************************************************************)
\* C17: installVersion downloads into a directory it has removed and made
\* anew, and once it has returned success the directory of the tag holds
\* the downloaded binary and nothing else.
C17_InstallLeavesOnlyFreshBinary ==
  /\ fpc = "i_mkdir" => dirs[arg] = AbsentDir
  /\ fpc = "i_download" => dirs[arg] = EmptyDir
  /\ inst = "ok" => dirs[arg] = DirWith(File(got, goos # "windows"))

\* an install over a directory that held another binary and a foreign file
C17_Witness ==
  /\ fpc = "done" /\ op = "install" /\ ferr = "none"
  /\ start.dirs[arg].hasBin /\ start.dirs[arg].extra
  /\ start.dirs[arg].bin.content # got
  /\ dirs[arg] = DirWith(File(got, goos # "windows"))

\* C18: when the download is answered with a status other than 200,
\* installVersion returns the download error and the directory of the tag
\* exists and is empty, whatever it held before.
C18_StatusErrorLeavesEmptyDir ==
  dl = "status"
    => /\ fpc = "done" /\ inst = "failed"
       /\ op = "install" => ferr = "download"
       /\ op = "switch" => ferr \in {"install", "reinstall"}
       /\ dirs[arg] = EmptyDir

\* the tag was installed, with a binary that reports it, before the call
C18_Witness ==
  /\ dl = "status" /\ op = "install" /\ fpc = "done"
  /\ Reports(goos, start.dirs[arg], arg)
  /\ dirs[arg] = EmptyDir

\* C19 (counting only runs in which installVersion failed after it had
\* called downloadBinary): after a failed install or switch the directory
\* of the tag is absent or empty.
C19_FailedRunLeavesNoBinary ==
  fpc = "done" /\ op \in {"install", "switch"} /\ inst = "failed" /\ dl # "none"
    => dirs[arg] \in {AbsentDir, EmptyDir}

(***************************************************************************)
(* Claims on the calls of installVersion in a switch (SpecSwitch).         *)
(***************************************************************************)
\* in a switch, installVersion is not called before the binary is looked
\* at, not at all when the binary is there and reports the tag, and once
\* when it is absent or does not report the tag; a failed call ends the
\* switch with the error of that call
OneInstallCall ==
  op = "switch"
    => /\ ninst <= 1
       /\ pre \in {"none", "good"} => ninst = 0 /\ inst = "none"
       /\ pre \in {"absent", "bad"} => ninst = 1
       /\ inst = "failed"
            => fpc = "done" /\ ferr = IF pre = "absent" THEN "install" ELSE "reinstall"

C21_PostCheckNeverFails ==
  [][fpc = "s_postcheck"
       => /\ fpc' = "done" /\ ferr' = "none"
          /\ post' \in PostResults
          /\ UNCHANGED fsVars]_vars

\* a switch has returned success with the warning
C21_Witness ==
  /\ fpc = "done" /\ op = "switch" /\ ferr = "none"
  /\ post = "warning" /\ link = LinkTo(arg)

\* the preferred directories that are entries of PATH, by their place in
\* preferredDirs
PreferredInPath == {i \in 1..Len(preferredDirs) :
                      \E j \in 1..Len(pathDirs) : pathDirs[j] = preferredDirs[i]}

\* the places of PATH, other than "" and ".", in which a file can be created
WritableInPath == {j \in 1..Len(pathDirs) :
                     /\ pathDirs[j] # "" /\ pathDirs[j] # "."
                     /\ pathDirs[j] \in writable}

Least(S) == CHOOSE i \in S : \A j \in S : i <= j

FellBackToHomeBin ==
  /\ rpc = "resolved" /\ ~resolved.err
  /\ PreferredInPath = {} /\ WritableInPath = {}
  /\ resolved.dir = HomeBin

\* C24: whenever the resolver falls back to the synthesized ~/bin, the user
\* is shown a message, also without --debug (the message that ~/bin may
\* have to be added to PATH).
C24_FallbackNotifiesUser ==
  FellBackToHomeBin /\ ~debugMode => resolved.shown # {}

\* some entry of PATH (other than "" and ".") or ~/bin is a directory in
\* which the user can create files
SomeLinkDirWritable == WritableInPath # {} \/ HomeBin \in writable

\* C23: when a directory of PATH such as /usr/local/bin is not writable,
\* the switch does not fail on it but places the link in a writable
\* directory: it succeeds whenever some entry of PATH or ~/bin is writable.
C23_SucceedsIfSomeDirWritable ==
  rpc = "done" /\ SomeLinkDirWritable =>
    /\ lres = "ok"
    /\ links[resolved.dir] = LinkTo(ltag)
    /\ resolved.dir \in writable

\* the directories that hold an entry named ddn
LinkDirs == {d \in Dirs : links[d].kind # "none"}

\* C25: after any sequence of successful switches of one user, each its own
\* invocation and possibly with another PATH, exactly one link entry exists
\* over all directories the resolver can choose, and it points at the binary
\* of the version switched to last.
C25_ExactlyOneActiveLink ==
  rpc = "done" /\ lres = "ok" =>
    /\ Cardinality(LinkDirs) = 1
    /\ \A d \in LinkDirs : links[d] = LinkTo(ltag)

\* C26: the binary download, like the catalog fetch, runs under a fixed
\* timeout, so a switch (and the install it calls) eventually returns, with
\* a result or an error, even if the server never answers or never finishes
\* its answer.
C26_NetworkCallsReturn ==
  /\ (op = "switch") ~> (fpc = "done")
  /\ (fpc = "i_download") ~> (fpc # "i_download" /\ fpc # "i_wait")

\* the step of uninstallVersion
UninstallActs == fpc = "u_remove" /\ fpc' = "done"

C28_LaterInvocationsServedFromCache ==
  \A p \in Callers :
    pc[p] = "done" /\ SameFlagWithinTTL /\ prev.releases # <<>>
      => net[p] = 0

\* the positions of createSymlink
LinkSteps == {"l_remove", "l_symlink", "l_copy"}

\* the binary of the tag was verified in this run: the installed binary
\* ran and printed the tag, or installVersion returned nil
VerifiedInRun == pre = "good" \/ inst = "ok"

\* C29: in every run of switchToVersion(tag) the link is changed, and
\* createSymlink is entered, only after the binary of tag was verified in
\* that run (the installed binary ran and its output contained tag, or
\* installVersion returned success), and the binary then runs and reports
\* tag; no step leads from a failed or skipped verification to the link.
C29_LinkOnlyAfterVerification ==
  [][op = "switch" /\ (link' # link \/ fpc' \in LinkSteps \/ fpc \in LinkSteps)
       => VerifiedInRun /\ Reports(goos, dirs[arg], arg)]_vars

\* the installed binary failed the verification, the reinstall succeeded,
\* and the link was changed
C29_Witness ==
  /\ op = "switch" /\ fpc = "s_postcheck"
  /\ pre = "bad" /\ inst = "ok"
  /\ link # start.link /\ link = LinkTo(arg)

\* createSymlink was called in this run and has returned
SymlinkReturned ==
  /\ op = "switch"
  /\ \/ fpc = "s_postcheck"
     \/ fpc = "done" /\ (ferr = "symlink" \/ post # "none")

\* the link path held a link to another tag when the run started
HeldOtherLink == start.link.kind = "symlink" /\ start.link.target # arg

C31_DownloadWritesBodyMode0755 ==
  dpc = "done" =>
    /\ dret = "none" =>
         /\ resp.status = StatusOK
         /\ dest.exists /\ dest.content = resp.body
         /\ goos # "windows" => dest.mode = Mode0755
    /\ resp.status # StatusOK =>
         /\ dret \in {"request", "status"}
         /\ dest = dest0

\* a file of mode 0600 with other content was at destPath; the download
\* succeeded
C31_Witness ==
  /\ dpc = "done" /\ dret = "none" /\ goos = "linux"
  /\ dest0 = DestFile(<<"b">>, <<6, 0, 0>>)
  /\ resp.body = <<"a", "b">>
  /\ dest = DestFile(<<"a", "b">>, Mode0755)

\* the output without its leading and trailing white space: the characters
\* from the first to the last one that is not white space
Trimmed(s) ==
  LET idx == {i \in 1..Len(s) : ~IsSpace(s[i])}
  IN  IF idx = {} THEN <<>>
      ELSE SubSeq(s, CHOOSE i \in idx : \A j \in idx : i <= j,
                     CHOOSE i \in idx : \A j \in idx : j <= i)

\* sub occurs in s: s is some characters, then sub, then some characters
Occurs(sub, s) ==
  \E a \in 0..Len(s), b \in 0..Len(s) :
    /\ a + Len(sub) + b = Len(s)
    /\ \A k \in 1..Len(sub) : s[a + k] = sub[k]

\* C32: isCurrentVersion(v) returns true exactly when running  ddn --version
\* succeeds and its trimmed output contains v as a substring (containment,
\* not equality), and returns false whenever the command cannot be run or
\* fails.
C32_CurrentIffOutputContains ==
  cpc = "done" =>
    /\ isCur = (ddnRun.ok /\ Occurs(query, Trimmed(ddnRun.out)))
    /\ ~ddnRun.ok => ~isCur

\* the command printed "v2" and a newline; "2" is the current version
C32_Witness ==
  /\ cpc = "done"
  /\ ddnRun = RunPrinted(<<"v", "2", Newline>>)
  /\ query = <<"2">>
  /\ isCur

\* caller p has missed the cache and has not returned: it is at the network
\* call or writing the entry
InFlight(p) == pc[p] \in {"fetch", "wantlock", "locking", "w1", "w2", "w3", "w4"}

\* C33 as stated: of several concurrent callers on an empty or expired
\* cache (the flag changes only while no call runs) exactly one goes to the
\* network; the others are served the entry it wrote.
C33_OneFetchPerExpiry ==
  \A p, q \in Callers : p # q => ~(InFlight(p) /\ InFlight(q))

\* C33: every caller makes at most one network call in a call. A caller
\* is served from the cache only if its check, under the read lock, finds a
\* complete entry that is not empty and was stored under the flag of the
\* call; every caller whose check misses makes its own
\* network call, so concurrent callers on an empty or expired cache make one
\* network call each.
C33_EachMissFetchesOnce ==
  \A p \in Callers :
    /\ net[p] <= 1
    /\ pc[p] = "hit" =>
         /\ net[p] = 0
         /\ releases[p] = entry[1] /\ entry[1] # <<>>
         /\ entry[2] <= now
         /\ entry[3] = includePrerelease
    /\ pc[p] \in {"miss", "fetch"} => net[p] = 0 /\ releases[p] = <<>>
    /\ pc[p] \in {"wantlock", "locking", "w1", "w2", "w3", "w4"} => net[p] = 1
    /\ pc[p] = "done" /\ net[p] = 0 => err[p] = "none" /\ releases[p] # <<>>

\* two callers have missed the same empty cache; both made a network call
C33_Witness ==
  /\ \A p \in Callers : pc[p] \in {"wantlock", "locking"} /\ net[p] = 1
  /\ versionCache = <<>>

\* C34: whenever no caller is replacing the entry, the stored flag is the
\* flag the stored snapshot was filtered with: a snapshot stored with the
\* flag off holds no pre-release, also when includePrerelease changes
\* between or during calls.
C34_EntryMatchesItsFlag ==
  wlock = None /\ ~cachePrerelease =>
    \A i \in 1..Len(versionCache) : ~versionCache[i].prerelease

\* C35: when refreshes overlap, the entry that stays in the cache holds the
\* snapshot of the response that arrived last: the snapshot of an older
\* response never replaces that of a newer one (and so is never stamped
\* with a newer time).
C35_NewerResponseNeverReplaced ==
  [][enum' >= enum]_vars

\* caller p waits for versionCacheMux
Blocked(p) ==
  \/ pc[p] = "wantlock" /\ wlock # None
  \/ pc[p] = "locking" /\ rlocks # {}

\* caller p holds the read lock, or holds or has announced the write lock,
\* and its next step does not wait
Proceeds(p) ==
  \/ pc[p] \in {"rlocked", "hit", "miss", "w1", "w2", "w3", "w4"}
  \/ pc[p] = "locking" /\ rlocks = {}

\* C36: versionCacheMux is not held across the network call and is
\* released on every path of fetchAvailableVersions (hit, miss, each error
\* return): a caller at the network call or back from the call holds neither
\* lock, the read lock is held only around the cache check and the write
\* lock only around the three assignments, and whenever a caller waits for
\* the lock some caller that holds it can take its next step (no deadlock).
C36_LockReleasedOnEveryPath ==
  /\ \A p \in Callers :
       /\ pc[p] \in {"idle", "fetch", "wantlock", "done"} =>
            p \notin rlocks /\ wlock # p
       /\ p \in rlocks <=> pc[p] \in {"rlocked", "hit", "miss"}
       /\ wlock = p <=> pc[p] \in {"locking", "w1", "w2", "w3", "w4"}
  /\ (\E p \in Callers : Blocked(p) \/ (pc[p] = "idle" /\ wlock # None))
       => \E q \in Callers : Proceeds(q)

\* one caller is back with an error and holds no lock while the other
\* writes the entry
C36_Witness ==
  \E p, q \in Callers :
    /\ pc[p] = "done" /\ err[p] # "none"
    /\ pc[q] = "w1" /\ wlock = q /\ rlocks = {}

\* C37: if a switch returns an error (a failed install or reinstall, a
\* failed link-path resolution, a failed link or copy), the entry at the
\* link path is what it was before the call.
C37_FailedSwitchKeepsLink ==
  op = "switch" /\ fpc = "done" /\ ferr # "none" => link = start.link

\* C39: after every completed install, switch or uninstall, a link at the
\* link path points at an existing binary of an installed version; removing
\* the active version, or failing to install it again, does not leave the
\* link dangling.
C39_LinkNeverDangles ==
  fpc = "done" /\ link.kind = "symlink" => dirs[link.target].hasBin

(***************************************************************************)
(* C38                                                                     *)
(***************************************************************************)
\* the paths of a disk at or below a path
Subtree(disk, path) == {q \in disk : IsPrefix(path, q)}

\* the installed versions other than the one the version string names
OtherVersions == {v \in VersionNames : ptag # <<v>>}

\* C38: when installVersion(tag), switchTo(tag) or uninstallVersion(tag) has
\* returned, for every tag string of the command line (the empty string and
\* strings with separators or ".." included), the install root still exists
\* if it existed before and the directory of every other installed version
\* holds what it held before.
C38_OnlyTagDirectoryTouched ==
  ppc = "done" =>
    /\ getInstallDir \in tree0 => getInstallDir \in tree
    /\ \A v \in OtherVersions :
         Subtree(tree, VersionDirOf(v)) = Subtree(tree0, VersionDirOf(v))

====
